---- MODULE Spec2Model ----
(***************************************************************************)
(* Tag-indexed media catalog and query engine of the outfit archive app.   *)
(*                                                                         *)
(* The repository holds several rewrites of the same program.  Two of      *)
(* them carry a cached tag-usage index and are modelled as one state       *)
(* machine, told apart by the variable `variant`:                          *)
(*   "app" : src/app.js, lines 906-1991 (appState, tags, tagFrequency)     *)
(*   "p1"  : src/unnamed/part_001 (freeTags, freeTagFrequency)             *)
(* A third one keeps no usage index and rereads storage after each write:  *)
(*   "p0"  : src/unnamed/part_000 (TagManager / UIManager classes)         *)
(*                                                                         *)
(* Strings are sequences of one-character strings, so that trim,           *)
(* whitespace collapsing, lower-casing, substring search and sorting are   *)
(* computed and not assumed.                                               *)
(***************************************************************************)
EXTENDS Integers, Sequences, FiniteSets, TLC

(***************************************************************************)
(* Bounds of the model.                                                    *)
(***************************************************************************)
\* uploads per run: ids are the clock readings 1..MaxUploads
MaxUploads == 2
\* free tags one item may carry before the pickers stop adding
MaxTagsPerItem == 2

(***************************************************************************)
(* JavaScript strings and arrays.                                          *)
(***************************************************************************)
Chars == {" ", "A", "B", "a", "b"}

\* UTF-16 code units, the order Array.prototype.sort() compares by
CharCode(c) ==
    CASE c = " " -> 32 [] c = "A" -> 65 [] c = "B" -> 66 [] c = "a" -> 97 [] c = "b" -> 98

\* String.prototype.toLowerCase on one character
LowerChar(c) == CASE c = "A" -> "a" [] c = "B" -> "b" [] OTHER -> c

toLowerCase(s) == [i \in 1..Len(s) |-> LowerChar(s[i])]

IsSpace(c) == c = " "

RECURSIVE TrimStart(_)
TrimStart(s) == IF s # <<>> /\ IsSpace(Head(s)) THEN TrimStart(Tail(s)) ELSE s

RECURSIVE TrimEnd(_)
TrimEnd(s) ==
    IF s # <<>> /\ IsSpace(s[Len(s)]) THEN TrimEnd(SubSeq(s, 1, Len(s) - 1)) ELSE s

\* String.prototype.trim
trim(s) == TrimEnd(TrimStart(s))

\* s.replace(/\s+/g, ' '): every run of whitespace becomes one space
RECURSIVE CollapseWhitespace(_)
CollapseWhitespace(s) ==
    IF s = <<>> THEN <<>>
    ELSE IF IsSpace(Head(s))
         THEN <<" ">> \o CollapseWhitespace(TrimStart(s))
         ELSE <<Head(s)>> \o CollapseWhitespace(Tail(s))

\* the prefix of s up to its first whitespace character
RECURSIVE TakeWord(_)
TakeWord(s) ==
    IF s = <<>> \/ IsSpace(Head(s)) THEN <<>> ELSE <<Head(s)>> \o TakeWord(Tail(s))

\* s.split(/\s+/).filter(t => t): the whitespace-separated words of s
RECURSIVE SplitWords(_)
SplitWords(s) ==
    LET t == TrimStart(s)
        w == TakeWord(t)
    IN  IF t = <<>> THEN <<>>
        ELSE <<w>> \o SplitWords(SubSeq(t, Len(w) + 1, Len(t)))

\* String.prototype.includes: term occurs in s as a contiguous substring
StrIncludes(s, term) ==
    \E i \in 0..(Len(s) - Len(term)) : SubSeq(s, i + 1, i + Len(term)) = term

\* the default comparison of Array.prototype.sort(): by code units, a proper
\* prefix first
RECURSIVE StrLess(_, _)
StrLess(s, t) ==
    IF t = <<>> THEN FALSE
    ELSE IF s = <<>> THEN TRUE
    ELSE IF Head(s) = Head(t) THEN StrLess(Tail(s), Tail(t))
    ELSE CharCode(Head(s)) < CharCode(Head(t))

\* Array.prototype.includes / indexOf(x) !== -1
Includes(arr, x) == \E i \in 1..Len(arr) : arr[i] = x

\* arr.filter(t => t !== x)
Without(arr, x) == SelectSeq(arr, LAMBDA t : t # x)

RECURSIVE InsertSorted(_, _)
InsertSorted(x, arr) ==
    IF arr = <<>> THEN <<x>>
    ELSE IF StrLess(Head(arr), x) THEN <<Head(arr)>> \o InsertSorted(x, Tail(arr))
    ELSE <<x>> \o arr

\* arr.sort() on an array of strings
RECURSIVE SortStrings(_)
SortStrings(arr) ==
    IF arr = <<>> THEN <<>>
    ELSE InsertSorted(arr[Len(arr)], SortStrings(SubSeq(arr, 1, Len(arr) - 1)))

\* [...new Set(arr)]: first occurrences, in order
RECURSIVE Dedupe(_)
Dedupe(arr) ==
    IF arr = <<>> THEN <<>>
    ELSE LET front == SubSeq(arr, 1, Len(arr) - 1)
             last == arr[Len(arr)]
         IN  IF Includes(front, last) THEN Dedupe(front)
             ELSE Dedupe(front) \o <<last>>

\* arr.map(t => t === from ? to : t)
MapReplace(arr, from, to) == [i \in 1..Len(arr) |-> IF arr[i] = from THEN to ELSE arr[i]]

\* arr.indexOf(x), 1-based; 0 when absent
IndexOf(arr, x) ==
    IF Includes(arr, x) THEN CHOOSE i \in 1..Len(arr) :
                                /\ arr[i] = x
                                /\ \A j \in 1..(i - 1) : arr[j] # x
    ELSE 0

\* arr.splice(i, 1) for a 1-based index i
RemoveAt(arr, i) == SubSeq(arr, 1, i - 1) \o SubSeq(arr, i + 1, Len(arr))

Range(arr) == {arr[i] : i \in 1..Len(arr)}
NoDuplicates(arr) == \A i, j \in 1..Len(arr) : arr[i] = arr[j] => i = j

(***************************************************************************)
(* Tag names used as inputs.                                               *)
(***************************************************************************)
tA == <<"a">>
tB == <<"b">>
tUpperA == <<"A">>
tPaddedA == <<" ", "a">>
tAb == <<"a", "b">>
tADoubleSpaceB == <<"a", " ", " ", "b">>
\* null / undefined where a tag name is expected
NoTag == <<>>
\* null where an image id is expected (ids are clock readings >= 1)
NoId == 0

\* The 27 built-in tag names, in the order the source lists them (which is
\* not sorted); two names stand for them here.
DefaultTags == <<tB, tA>>

\* The tag picker of app.js offers the built-in names, whatever the
\* vocabulary holds; the user clicks this one.
PickerTags == {tA}

\* What the user may type into the rename dialog.
RenameInputs == {tB, tADoubleSpaceB}

\* What the user may type into a tag input of an edit dialog.
TypedTags == {tUpperA, tPaddedA}

\* What the user may answer to the prompt of openAddFreeTagModal.
PromptAnswers == {tPaddedA, NoTag}

\* The tags recordTagUsage is called with: one more than the recent tags hold.
tUpperB == <<"B">>
tBa == <<"b", "a">>
tAa == <<"a", "a">>
tBb == <<"b", "b">>
tUpperAb == <<"A", "b">>
UsageTags == <<tA, tB, tUpperA, tUpperB, tAb, tBa, tAa, tBb, tUpperAb>>

\* The arguments addTag is called with.
tBlank == <<" ">>
AddTagInputs == {tA, tB, tPaddedA, tUpperA, tAb, tBa, tADoubleSpaceB, tBlank, NoTag}

\* The values the category dialogs and pickers offer for a structured tag.
StructuredValues == {tA, tAb}

\* The value chip the user clicks in the edit dialog.
EditValues == {tAb}

\* What the user may type as the name of a category.
CategoryNames == {tA, tB}

\* What the user may type into the search box.
tUpperADoubleSpaceB == <<"A", " ", " ", "b">>
SearchTexts == {<<>>, tUpperADoubleSpaceB}

\* The search tags the user may pick.
SearchPicks == {tUpperA, tB}

\* app: the tag-list rewrite of app.js; p1: the structured-tags rewrite
\* (part_001); p0: the class-based rewrite (part_000)
Variants == {"app", "p1", "p0"}

VARIABLES
    variant,             \* which rewrite runs
    boot,                \* the indexedDB.open request and how far start-up has come
    cascade,             \* the renameTag / deleteTag call that awaits a write
    stores,              \* what each backend holds after the same storage calls
    upload,              \* UIManager.pendingImageData and the calls that work on it
    useLocalStorage,     \* appState.useLocalStorage
    now,                 \* Date.now()
    allImages,           \* appState.allImages
    dbImages,            \* the 'images' store
    allTags,             \* appState.allTags / allFreeTags
    dbTags,              \* the 'tags' / 'freeTags' store
    tagFrequency,        \* appState.tagFrequency / freeTagFrequency
    recentTags,          \* TagManager.recentTags and its copy in localStorage
    modal,               \* the open dialog and what it works on
    structuredTagsConfig, \* appState.structuredTagsConfig (part_001)
    structuredFilters,   \* appState.structuredFilters (part_001)
    activeSearchTags,    \* appState.activeSearchTags / activeFreeTags
    filterMode,          \* appState.filterMode; "or" is useORFilter of part_000
    searchText,          \* the value of #searchInput
    sortBy,              \* appState.sortBy / the value of #sortBy
    filteredImages,      \* appState.filteredImages, as image ids
    lastOp               \* the handler that ran last, with its arguments

\* what the search tab filters by
filterVars == <<structuredTagsConfig, structuredFilters, activeSearchTags, filterMode,
                searchText, sortBy>>

vars == <<variant, boot, cascade, stores, upload, useLocalStorage, now, allImages, dbImages, allTags, dbTags,
          tagFrequency, recentTags, modal, filterVars, filteredImages, lastOp>>

\* The dialogs.  appState.currentEditImageId, currentTagToRename and
\* currentTagToDelete are written when a dialog opens and read only by the
\* handlers of that dialog, so each is kept with its dialog: id is
\* currentEditImageId, tag is currentTagToRename / currentTagToDelete, count
\* is the number written into the confirm text, list is the #editTagList of
\* part_000, whose handlers read the tags back from the page.
NoModal == [kind |-> "none", id |-> NoId, tag |-> NoTag, count |-> 0, list |-> <<>>]
EditModal(id, list) ==
    [kind |-> "edit", id |-> id, tag |-> NoTag, count |-> 0, list |-> list]
RenameTagModal(tag) ==
    [kind |-> "rename", id |-> NoId, tag |-> tag, count |-> 0, list |-> <<>>]
ConfirmModal(tag, count) ==
    [kind |-> "confirm", id |-> NoId, tag |-> tag, count |-> count, list |-> <<>>]
\* the category dialog: tag is appState.currentEditingCategoryKey
CategoryModal(key) ==
    [kind |-> "category", id |-> NoId, tag |-> key, count |-> 0, list |-> <<>>]

\* op: the handler; a, b: the tag arguments of a rename or delete; flag: the
\* branch it took
Op(name, a, b, flag) == [op |-> name, a |-> a, b |-> b, flag |-> flag]
\* a method call with the value its promise resolved with
Returned(name, a, ret) == [op |-> name, a |-> a, b |-> NoTag, flag |-> FALSE, ret |-> ret]
Did(name) == Op(name, NoTag, NoTag, FALSE)

\* request: the indexedDB.open request is "pending", "open" (onsuccess) or
\* "failed" (onerror); at: where the DOMContentLoaded handler stands
Boot(request, at) == [request |-> request, at |-> at]
\* a handler one of whose storage writes was rejected: surfaced tells whether
\* its promise was rejected or an error toast shown, success whether it went
\* on to its success toast
Failed(name, surfaced, success) ==
    [op |-> name, a |-> NoTag, b |-> NoTag, flag |-> FALSE, failed |-> TRUE,
     surfaced |-> surfaced, success |-> success]

\* a renameTag(a, b) or deleteTag() call between its awaits: at "images" it
\* awaits dbUpdateImage of allImages[next], at "tags" it awaits dbSaveTags;
\* flag is isExisting
Cascade(op, a, b, flag, at, next) ==
    [op |-> op, a |-> a, b |-> b, flag |-> flag, at |-> at, next |-> next]
NoCascade == Cascade("none", NoTag, NoTag, FALSE, "none", 0)

\* start-up is over; the localStorage branch is taken after a failed open
Booted == Boot(IF useLocalStorage THEN "failed" ELSE "open", "ready")
\* importData with the parsed file, the answer to the merge question, and
\* whether it went through to the end of its try block
Imported(data, merge, ok) ==
    [op |-> "importData", a |-> NoTag, b |-> NoTag, flag |-> merge, data |-> data, ok |-> ok]

(***************************************************************************)
(* Storage: IndexedDB object stores keyed by id / name, or one JSON array  *)
(* per key in localStorage.                                                *)
(***************************************************************************)
HasId(images, id) == \E i \in 1..Len(images) : images[i].id = id

\* images.find(img => img.id === id), as a 1-based index; 0 when absent
FindIndex(images, id) ==
    IF HasId(images, id) THEN CHOOSE i \in 1..Len(images) :
                                 /\ images[i].id = id
                                 /\ \A j \in 1..(i - 1) : images[j].id # id
    ELSE 0

\* an object store hands its records out in key order
RECURSIVE InsertById(_, _)
InsertById(img, images) ==
    IF images = <<>> THEN <<img>>
    ELSE IF Head(images).id < img.id THEN <<Head(images)>> \o InsertById(img, Tail(images))
    ELSE <<img>> \o images

\* Each storage function has a localStorage branch (ls) and an IndexedDB one.
\* store.add rejects a key that is present; the localStorage branch pushes
DbSaveImageOkOn(ls, store, img) == ls \/ ~HasId(store, img.id)

DbSaveImageOn(ls, store, img) ==
    IF ls THEN Append(store, img) ELSE InsertById(img, store)

\* images[index] = imageData when findIndex finds the id; store.put otherwise
DbUpdateImageOn(ls, store, img) ==
    IF ls
    THEN LET index == FindIndex(store, img.id)
         IN  IF index # 0 THEN [store EXCEPT ![index] = img] ELSE store
    ELSE InsertById(img, SelectSeq(store, LAMBDA r : r.id # img.id))

DbSaveImageOk(store, img) == DbSaveImageOkOn(useLocalStorage, store, img)

DbSaveImage(store, img) == DbSaveImageOn(useLocalStorage, store, img)

DbUpdateImage(store, img) == DbUpdateImageOn(useLocalStorage, store, img)

DbDeleteImage(store, id) == SelectSeq(store, LAMBDA r : r.id # id)

DbGetImage(store, id) == FindIndex(store, id)

\* store.clear() then store.add({name}) for each tag; getAll() is in key order
DbSaveTags(tags) == IF useLocalStorage THEN tags ELSE SortStrings(tags)

\* a name that comes twice makes the second store.add fail, which aborts the
\* transaction and with it the store.clear() before; setItem takes any array
DbSaveTagsOkOn(ls, tags) == ls \/ NoDuplicates(tags)

DbSaveTagsOn(ls, stored, tags) ==
    IF ls THEN tags
    ELSE IF NoDuplicates(tags) THEN SortStrings(tags) ELSE stored

\* What a backend holds: the items, the vocabulary, and whether localStorage
\* has the structuredTagsConfig key, which both backends of part_001 keep there.
Store(images, tags, config) == [images |-> images, tags |-> tags, config |-> config]

\* localStorage.clear() takes every key; the transaction clears two stores
DbClearAllOn(ls, store) ==
    IF ls THEN Store(<<>>, <<>>, FALSE) ELSE Store(<<>>, <<>>, store.config)

NoStores == [idb |-> Store(<<>>, <<>>, FALSE), ls |-> Store(<<>>, <<>>, FALSE)]

\* files: what the running handleFiles call has still to read; pending:
\* this.pendingImageData, <<>> for null; list: the tags of #tagModalList;
\* writes: the records whose db.saveImage is awaited; dropped: the drops made
NoUpload == [files |-> <<>>, pending |-> <<>>, list |-> <<>>, writes |-> <<>>,
             dropped |-> {}]

\* for (img of images) await dbUpdateImage(img)
RECURSIVE DbUpdateAll(_, _)
DbUpdateAll(store, images) ==
    IF images = <<>> THEN store
    ELSE DbUpdateAll(DbUpdateImage(store, Head(images)), Tail(images))

(***************************************************************************)
(* The usage index.                                                        *)
(***************************************************************************)
RECURSIVE CountOccurrences(_, _)
CountOccurrences(images, t) ==
    IF images = <<>> THEN 0
    ELSE Cardinality({j \in 1..Len(Head(images).tags) : Head(images).tags[j] = t})
         + CountOccurrences(Tail(images), t)

\* loadAllData: tagFrequency[tag] = (tagFrequency[tag] || 0) + 1 over all tags
ComputeTagFrequency(images) ==
    [t \in UNION {Range(images[i].tags) : i \in 1..Len(images)} |->
        CountOccurrences(images, t)]

\* tagFrequency[tag] || 0
FrequencyOf(freq, t) == IF t \in DOMAIN freq THEN freq[t] ELSE 0

\* delete freq[t]
DeleteKey(freq, t) == [k \in (DOMAIN freq) \ {t} |-> freq[k]]

\* freq[t] = n
SetKey(freq, t, n) == [k \in (DOMAIN freq) \cup {t} |-> IF k = t THEN n ELSE freq[k]]

\* The category keys of the structured tags.
Keys == {"itemCategory"}

(***************************************************************************)
(* JavaScript values found under a category key of img.structuredTags and  *)
(* of appState.structuredFilters: null, a string, an array of strings; a   *)
(* missing property reads as undefined.                                    *)
(***************************************************************************)
Undefined == [type |-> "undefined", str |-> <<>>, arr |-> <<>>]
Null == [type |-> "null", str |-> <<>>, arr |-> <<>>]
Str(s) == [type |-> "string", str |-> s, arr |-> <<>>]
Arr(a) == [type |-> "array", str |-> <<>>, arr |-> a]

\* obj[key]
Get(obj, key) == IF key \in DOMAIN obj THEN obj[key] ELSE Undefined

\* the value counts as true in a condition
Truthy(v) == v.type = "array" \/ (v.type = "string" /\ v.str # <<>>)

\* v === w, for w a string or null
StrictEquals(v, w) ==
    /\ v.type = w.type
    /\ v.type \in {"string", "null", "undefined"}
    /\ v.str = w.str

\* v.includes(x): membership for an array, substring search for a string
ValueIncludes(v, x) ==
    IF v.type = "array" THEN Includes(v.arr, x) ELSE StrIncludes(v.str, x)

(***************************************************************************)
(* The query: applyFilters of the three rewrites.                          *)
(***************************************************************************)
\* the insertion that puts x in front of the elements the comparator ties it
\* with
RECURSIVE InsertByCreatedAtBeforeTies(_, _, _)
InsertByCreatedAtBeforeTies(x, sorted, by) ==
    IF sorted = <<>> THEN <<x>>
    ELSE LET last == sorted[Len(sorted)]
             difference == IF by = "newest" THEN x.createdAt - last.createdAt
                           ELSE last.createdAt - x.createdAt
         IN  IF difference < 0 THEN Append(sorted, x)
             ELSE Append(InsertByCreatedAtBeforeTies(x, SubSeq(sorted, 1, Len(sorted) - 1),
                                                     by),
                         last)

\* where x goes in a list sorted by the comparator of the source: behind
\* every element the comparator does not put after it (the sort is stable)
RECURSIVE InsertByCreatedAt(_, _, _)
InsertByCreatedAt(x, sorted, by) ==
    IF sorted = <<>> THEN <<x>>
    ELSE LET last == sorted[Len(sorted)]
             \* the comparator on (last, x): negative or zero keeps the order
             difference == IF by = "newest" THEN x.createdAt - last.createdAt
                           ELSE last.createdAt - x.createdAt
         IN  IF difference <= 0 THEN Append(sorted, x)
             ELSE Append(InsertByCreatedAt(x, SubSeq(sorted, 1, Len(sorted) - 1), by),
                         last)

\* filtered.sort((a, b) => sortBy === 'newest' ? timeB - timeA : timeA - timeB)
RECURSIVE SortImages(_, _)
SortImages(images, by) ==
    IF images = <<>> THEN <<>>
    ELSE InsertByCreatedAt(images[Len(images)],
                           SortImages(SubSeq(images, 1, Len(images) - 1), by), by)

\* the structured pass of part_001 on one image
StructuredPass(img, config, filters) ==
    \A key \in DOMAIN config :
        LET filterValue == Get(filters, key)
            value == Get(img.structuredTags, key)
            imgValues == IF Truthy(value) THEN value ELSE Arr(<<>>)
        IN  IF config[key].multi /\ filterValue.type = "array" /\ Len(filterValue.arr) > 0
            THEN \E i \in 1..Len(filterValue.arr) : ValueIncludes(imgValues, filterValue.arr[i])
            ELSE IF ~config[key].multi /\ Truthy(filterValue)
                 THEN StrictEquals(value, filterValue)
                 ELSE TRUE

\* the free-tag pass of part_001: img.freeTags.includes(tag)
FreeTagPass(img, activeFreeTags, mode) ==
    IF Len(activeFreeTags) > 0
    THEN IF mode = "and"
         THEN \A i \in 1..Len(activeFreeTags) : Includes(img.tags, activeFreeTags[i])
         ELSE \E i \in 1..Len(activeFreeTags) : Includes(img.tags, activeFreeTags[i])
    ELSE TRUE

\* the tag pass of app.js and of SearchManager.filterImages: the image's tags
\* are lower-cased before the comparison
LowerCasedTagPass(img, searchTags, useOR) ==
    LET imageTags == [i \in 1..Len(img.tags) |-> toLowerCase(img.tags[i])]
    IN  IF Len(searchTags) > 0
        THEN IF useOR
             THEN \E i \in 1..Len(searchTags) : Includes(imageTags, searchTags[i])
             ELSE \A i \in 1..Len(searchTags) : Includes(imageTags, searchTags[i])
        ELSE TRUE

TermInFreeTags(img, term) ==
    \E i \in 1..Len(img.tags) : StrIncludes(toLowerCase(img.tags[i]), term)

\* the memo compared as typed, without lower-casing it
TermInMemoAsTyped(img, term) == img.memo # <<>> /\ StrIncludes(img.memo, term)

TermInMemo(img, term) == img.memo # <<>> /\ StrIncludes(toLowerCase(img.memo), term)

\* Object.values(img.structuredTags).some(...)
TermInStructured(img, term) ==
    \E key \in DOMAIN img.structuredTags :
        LET v == img.structuredTags[key]
        IN  IF v.type = "array"
            THEN \E i \in 1..Len(v.arr) : StrIncludes(toLowerCase(v.arr[i]), term)
            ELSE Truthy(v) /\ StrIncludes(toLowerCase(v.str), term)

\* searchInput.value.toLowerCase().split(/\s+/).filter(t => t)
SearchTerms(text) == SplitWords(toLowerCase(text))

\* the text pass of part_001
TextPass(img, searchTerms) ==
    IF Len(searchTerms) > 0
    THEN \A i \in 1..Len(searchTerms) :
            \/ TermInFreeTags(img, searchTerms[i])
            \/ TermInMemo(img, searchTerms[i])
            \/ TermInStructured(img, searchTerms[i])
    ELSE TRUE

\* the text pass of app.js
TextPassApp(img, searchTerms) ==
    IF Len(searchTerms) > 0
    THEN \A i \in 1..Len(searchTerms) :
            TermInFreeTags(img, searchTerms[i]) \/ TermInMemo(img, searchTerms[i])
    ELSE TRUE

\* the callback of allImages.filter(...) in applyFilters
Keeps(v, img, config, filters, active, mode, text) ==
    CASE v = "p1" ->
            IF ~StructuredPass(img, config, filters) THEN FALSE
            ELSE IF ~FreeTagPass(img, active, mode) THEN FALSE
            ELSE IF ~TextPass(img, SearchTerms(text)) THEN FALSE
            ELSE TRUE
      [] v = "app" ->
            IF ~TextPassApp(img, SearchTerms(text)) THEN FALSE
            ELSE LowerCasedTagPass(img, active, mode # "and")
      [] OTHER -> LowerCasedTagPass(img, active, mode = "or")

\* applyFilters: what it leaves in filteredImages, as the ids of the image
\* objects (filteredImages holds the objects of allImages themselves)
ApplyFilters(v, by, images, config, filters, active, mode, text) ==
    LET filtered == SelectSeq(images,
                        LAMBDA img : Keeps(v, img, config, filters, active, mode, text))
        sorted == SortImages(filtered, by)
    IN  [i \in 1..Len(sorted) |-> sorted[i].id]

(***************************************************************************)
(* Start-up.                                                               *)
(***************************************************************************)
\* loadAllData of app.js and initTags of part_000 fall back to the built-in
\* names when the store holds no tag; part_001 has no such fallback
HasDefaultTags == variant \in {"app", "p0"}

LoadedTags(store) ==
    IF HasDefaultTags /\ Len(store) = 0 THEN DefaultTags ELSE store

\* structuredTags of a new image, and structuredFilters at start-up: the
\* empty value of each category
EmptyValues(config) ==
    [key \in DOMAIN config |-> IF config[key].multi THEN Arr(<<>>) ELSE Null]

\* DEFAULT_STRUCTURED_TAGS_CONFIG, cut down to its first category; app.js and
\* part_000 have no categories
DefaultStructuredTagsConfig ==
    IF variant = "p1" THEN [key \in Keys |-> [label |-> tA, multi |-> FALSE]] ELSE <<>>

\* applyFilters() with the filters as they are, over the given images
Refreshed(images) ==
    ApplyFilters(variant, sortBy, images, structuredTagsConfig, structuredFilters,
                 activeSearchTags, filterMode, searchText)

\* initDB then loadAllData on a page load: a fresh appState read from storage
\* (part_000: initTags and loadImages; it keeps no usage index)
LoadAllData(images, tags) ==
    /\ allImages' = images
    /\ allTags' = LoadedTags(tags)
    /\ dbTags' = IF HasDefaultTags /\ Len(tags) = 0 THEN DbSaveTags(DefaultTags) ELSE tags
    /\ tagFrequency' = IF variant = "p0" THEN <<>> ELSE ComputeTagFrequency(images)
    /\ modal' = NoModal
    /\ structuredFilters' = EmptyValues(structuredTagsConfig)
    /\ activeSearchTags' = <<>>
    /\ filterMode' = "and"
    /\ searchText' = <<>>
    /\ sortBy' = "newest"
    /\ filteredImages' = <<>>

Init ==
    /\ variant \in Variants
    /\ useLocalStorage \in IF variant = "p0" THEN {FALSE} ELSE BOOLEAN
    /\ boot = Booted
    /\ cascade = NoCascade
    /\ stores = NoStores
    /\ upload = NoUpload
    /\ now = 0
    /\ allImages = <<>>
    /\ dbImages = <<>>
    /\ allTags = LoadedTags(<<>>)
    /\ dbTags = IF HasDefaultTags THEN DbSaveTags(DefaultTags) ELSE <<>>
    /\ tagFrequency = <<>>
    /\ recentTags = <<>>
    /\ modal = NoModal
    /\ structuredTagsConfig = DefaultStructuredTagsConfig
    /\ structuredFilters = EmptyValues(structuredTagsConfig)
    /\ activeSearchTags = <<>>
    /\ filterMode = "and"
    /\ searchText = <<>>
    /\ sortBy = "newest"
    /\ filteredImages = <<>>
    /\ lastOp = Did("init")

\* the page is loaded again: memory is rebuilt from storage
Reload ==
    /\ LoadAllData(dbImages, dbTags)
    /\ lastOp' = Did("loadAllData")
    /\ UNCHANGED <<variant, upload, stores, cascade, boot, recentTags, useLocalStorage, now, dbImages, structuredTagsConfig>>

(***************************************************************************)
(* Items: upload, edit dialog, delete.                                     *)
(***************************************************************************)
\* the in-memory image object the edit dialog works on
EditedIndex == FindIndex(allImages, modal.id)

SetTags(images, index, tags) == [images EXCEPT ![index].tags = tags]

\* handleFiles with one image file: id = Date.now() + 0, no tags; part_000
\* reads the gallery again from the store (loadImages)
HandleFiles ==
    /\ modal.kind = "none"
    /\ now < MaxUploads
    /\ now' = now + 1
    /\ LET imageData == [id |-> now', tags |-> <<>>, memo |-> <<>>,
                         structuredTags |-> EmptyValues(structuredTagsConfig),
                         createdAt |-> now']
       IN  IF DbSaveImageOk(dbImages, imageData)
           THEN /\ dbImages' = DbSaveImage(dbImages, imageData)
                /\ allImages' = IF variant = "p0" THEN dbImages'
                                ELSE Append(allImages, imageData)
           ELSE UNCHANGED <<dbImages, allImages>>
    /\ lastOp' = Did("handleFiles")
    /\ UNCHANGED filterVars
    /\ UNCHANGED <<variant, upload, stores, cascade, boot, recentTags, useLocalStorage, allTags, dbTags, tagFrequency, modal>>
    /\ filteredImages' = IF variant = "p0" THEN filteredImages ELSE Refreshed(allImages')

\* openEditModal(imageId): the card of an image of the grid is clicked;
\* part_000 fills #editTagList from the stored copy
OpenEditModal(imageId) ==
    /\ modal.kind = "none"
    /\ HasId(allImages, imageId)
    /\ DbGetImage(dbImages, imageId) # 0
    /\ modal' = EditModal(imageId,
                          IF variant = "p0"
                          THEN dbImages[DbGetImage(dbImages, imageId)].tags
                          ELSE <<>>)
    /\ lastOp' = Did("openEditModal")
    /\ UNCHANGED filterVars
    /\ UNCHANGED filteredImages
    /\ UNCHANGED <<variant, upload, stores, cascade, boot, recentTags, useLocalStorage, now, allImages, dbImages, allTags,
                   dbTags, tagFrequency>>

\* selectTag(tag) with the picker opened from the edit dialog (app.js), and
\* selectFreeTagInEdit(tag) (part_001): toggle the tag on the in-memory image
ToggleTagOnImage(tag) ==
    LET index == EditedIndex
        tags == allImages[index].tags
        at == IndexOf(tags, tag)
    IN  /\ index # 0
        /\ at # 0 \/ Len(tags) < MaxTagsPerItem
        /\ allImages' = SetTags(allImages, index,
                                IF at # 0 THEN RemoveAt(tags, at) ELSE Append(tags, tag))

SelectTag(tag) ==
    /\ variant = "app"
    /\ modal.kind = "edit"
    /\ tag \in PickerTags
    /\ ToggleTagOnImage(tag)
    /\ lastOp' = Did("selectTag")
    /\ UNCHANGED filterVars
    /\ UNCHANGED filteredImages
    /\ UNCHANGED <<variant, upload, stores, cascade, boot, recentTags, useLocalStorage, now, dbImages, allTags, dbTags,
                   tagFrequency, modal>>

SelectFreeTagInEdit(tag) ==
    /\ variant = "p1"
    /\ modal.kind = "edit"
    /\ Includes(allTags, tag)
    /\ ToggleTagOnImage(tag)
    /\ lastOp' = Did("selectFreeTagInEdit")
    /\ UNCHANGED filterVars
    /\ UNCHANGED filteredImages
    /\ UNCHANGED <<variant, upload, stores, cascade, boot, recentTags, useLocalStorage, now, dbImages, allTags, dbTags,
                   tagFrequency, modal>>

\* createNewFreeTagInEdit(searchQuery): the button is there for a non-empty
\* query, lower-cased by the picker, that is not in the vocabulary
CreateNewFreeTagInEdit(typed) ==
    LET searchQuery == toLowerCase(typed)
        trimmed == trim(searchQuery)
        tags == IF Includes(allTags, trimmed) THEN allTags
                ELSE SortStrings(Append(allTags, trimmed))
    IN  /\ variant = "p1"
        /\ modal.kind = "edit"
        /\ searchQuery # <<>>
        /\ ~Includes(allTags, searchQuery)
        /\ allTags' = tags
        /\ dbTags' = IF Includes(allTags, trimmed) THEN dbTags ELSE DbSaveTags(tags)
        /\ ToggleTagOnImage(trimmed)
        /\ lastOp' = Did("createNewFreeTagInEdit")
        /\ UNCHANGED filterVars
        /\ UNCHANGED filteredImages
        /\ UNCHANGED <<variant, upload, stores, cascade, boot, recentTags, useLocalStorage, now, dbImages, tagFrequency, modal>>

\* removeEditTag(tag) / removeFreeTagInEdit(tag): the x of a shown tag
RemoveEditTag(tag) ==
    LET index == EditedIndex
    IN  /\ variant \in {"app", "p1"}
        /\ modal.kind = "edit"
        /\ index # 0
        /\ Includes(allImages[index].tags, tag)
        /\ allImages' = SetTags(allImages, index, Without(allImages[index].tags, tag))
        /\ lastOp' = Did("removeEditTag")
        /\ UNCHANGED filterVars
        /\ UNCHANGED filteredImages
        /\ UNCHANGED <<variant, upload, stores, cascade, boot, recentTags, useLocalStorage, now, dbImages, allTags, dbTags,
                       tagFrequency, modal>>

\* saveImageEdit: persist the in-memory image, close the dialog
SaveImageEdit ==
    LET index == EditedIndex
    IN  /\ variant \in {"app", "p1"}
        /\ modal.kind = "edit"
        /\ index # 0
        /\ dbImages' = DbUpdateImage(dbImages, allImages[index])
        /\ modal' = NoModal
        /\ lastOp' = Did("saveImageEdit")
        /\ UNCHANGED filterVars
        /\ UNCHANGED <<variant, upload, stores, cascade, boot, recentTags, useLocalStorage, now, allImages, allTags, dbTags,
                       tagFrequency>>
        /\ filteredImages' = Refreshed(allImages')

\* closeModal('editModal') without saving
CloseEditModal ==
    /\ modal.kind = "edit"
    /\ modal' = NoModal
    /\ lastOp' = Did("closeModal")
    /\ UNCHANGED filterVars
    /\ UNCHANGED filteredImages
    /\ UNCHANGED <<variant, upload, stores, cascade, boot, recentTags, useLocalStorage, now, allImages, dbImages, allTags,
                   dbTags, tagFrequency>>

\* deleteImage that also drops from the vocabulary the names no image uses
\* any more
DeleteImagePruningUnused ==
    LET images == SelectSeq(allImages, LAMBDA img : img.id # modal.id)
        tags == SelectSeq(allTags, LAMBDA t : CountOccurrences(images, t) > 0)
    IN  /\ variant \in {"app", "p1"}
        /\ modal.kind = "edit"
        /\ dbImages' = DbDeleteImage(dbImages, modal.id)
        /\ allImages' = images
        /\ allTags' = tags
        /\ dbTags' = DbSaveTags(tags)
        /\ modal' = NoModal
        /\ lastOp' = Did("deleteImage")
        /\ UNCHANGED filterVars
        /\ UNCHANGED <<variant, upload, stores, cascade, boot, recentTags, useLocalStorage, now, tagFrequency>>
        /\ filteredImages' = Refreshed(allImages')

\* deleteImage(imageId), from the delete button of the edit dialog
DeleteImage ==
    /\ variant \in {"app", "p1"}
    /\ modal.kind = "edit"
    /\ dbImages' = DbDeleteImage(dbImages, modal.id)
    /\ allImages' = SelectSeq(allImages, LAMBDA img : img.id # modal.id)
    /\ modal' = NoModal
    /\ lastOp' = Did("deleteImage")
    /\ UNCHANGED filterVars
    /\ UNCHANGED <<variant, upload, stores, cascade, boot, recentTags, useLocalStorage, now, allTags, dbTags, tagFrequency>>
    /\ filteredImages' = Refreshed(allImages')

(***************************************************************************)
(* Items in part_000: the edit dialog keeps its tags on the page until     *)
(* they are saved; images are deleted from a selection.                    *)
(***************************************************************************)
\* addEditTag(tag): the text typed into #editTagInput, or a suggestion
AddEditTag(typed) ==
    LET trimmedTag == trim(typed)
    IN  /\ variant = "p0"
        /\ modal.kind = "edit"
        /\ Len(modal.list) < MaxTagsPerItem
        /\ modal' = IF trimmedTag = <<>> \/ Includes(modal.list, trimmedTag)
                    THEN modal
                    ELSE [modal EXCEPT !.list = Append(@, trimmedTag)]
        /\ lastOp' = Did("addEditTag")
        /\ UNCHANGED filterVars
        /\ UNCHANGED filteredImages
        /\ UNCHANGED <<variant, upload, stores, cascade, boot, recentTags, useLocalStorage, now, allImages, dbImages, allTags,
                       dbTags, tagFrequency>>

\* the x of a tag of #editTagList: tagEl.remove()
RemoveEditTagEl(at) ==
    /\ variant = "p0"
    /\ modal.kind = "edit"
    /\ at \in 1..Len(modal.list)
    /\ modal' = [modal EXCEPT !.list = RemoveAt(@, at)]
    /\ lastOp' = Did("removeEditTag")
    /\ UNCHANGED filterVars
    /\ UNCHANGED filteredImages
    /\ UNCHANGED <<variant, upload, stores, cascade, boot, recentTags, useLocalStorage, now, allImages, dbImages, allTags,
                   dbTags, tagFrequency>>

\* the most recent tags TagManager keeps
RecentLimit == 8

\* recordTagUsage without the removal of the tag's earlier entry
RecordTagUsageKeepingEarlier(recent, tag) ==
    LET unshifted == <<tag>> \o recent
    IN  SubSeq(unshifted, 1, IF Len(unshifted) < RecentLimit THEN Len(unshifted)
                             ELSE RecentLimit)

\* TagManager.recordTagUsage(tag): the tag moves to the front, the list is
\* cut to its first eight
RecordTagUsage(recent, tag) ==
    LET index == IndexOf(recent, tag)
        spliced == IF index # 0 THEN RemoveAt(recent, index) ELSE recent
        unshifted == <<tag>> \o spliced
    IN  SubSeq(unshifted, 1, IF Len(unshifted) < RecentLimit THEN Len(unshifted)
                             ELSE RecentLimit)

\* whether TagManager.addTag(tag) goes past its early return
AddTagInserts(tags, tag) == trim(tag) # <<>> /\ ~Includes(tags, trim(tag))

\* TagManager.addTag(tag), on the recent tags: a tag it inserts is recorded
RecentAfterAddTag(tags, recent, tag) ==
    IF AddTagInserts(tags, tag) THEN RecordTagUsage(recent, trim(tag)) ELSE recent

\* TagManager.addTag(tag), on the vocabulary
AddTag(tags, tag) ==
    LET trimmedTag == trim(tag)
    IN  IF trimmedTag = <<>> \/ Includes(tags, trimmedTag) THEN tags
        ELSE SortStrings(Append(tags, trimmedTag))

\* TagManager.addMultipleTags(tags): addTag for each, in order
RECURSIVE AddMultipleTags(_, _)
AddMultipleTags(tags, list) ==
    IF list = <<>> THEN tags
    ELSE AddMultipleTags(AddTag(tags, Head(list)), Tail(list))

\* TagManager.addMultipleTags(tags), on the recent tags
RECURSIVE RecentAfterAddMultipleTags(_, _, _)
RecentAfterAddMultipleTags(tags, recent, list) ==
    IF list = <<>> THEN recent
    ELSE RecentAfterAddMultipleTags(AddTag(tags, Head(list)),
                                    RecentAfterAddTag(tags, recent, Head(list)),
                                    Tail(list))

\* saveEditImage: the stored copy takes the tags of the page, the vocabulary
\* takes the new names, the gallery is read again
SaveEditImage ==
    LET index == DbGetImage(dbImages, modal.id)
        image == [dbImages[index] EXCEPT !.tags = modal.list]
        tags == AddMultipleTags(allTags, modal.list)
    IN  /\ variant = "p0"
        /\ modal.kind = "edit"
        /\ index # 0
        /\ dbImages' = DbUpdateImage(dbImages, image)
        /\ allTags' = tags
        /\ dbTags' = IF tags = allTags THEN dbTags ELSE DbSaveTags(tags)
        /\ recentTags' = RecentAfterAddMultipleTags(allTags, recentTags, modal.list)
        /\ allImages' = dbImages'
        /\ modal' = NoModal
        /\ lastOp' = Did("saveEditImage")
        /\ UNCHANGED filterVars
        /\ UNCHANGED filteredImages
        /\ UNCHANGED <<variant, upload, stores, cascade, boot, useLocalStorage, now, tagFrequency>>

\* confirmDeleteSelected with the images ticked in selection mode
ConfirmDeleteSelected(selectedImageIds) ==
    /\ variant = "p0"
    /\ modal.kind = "none"
    /\ selectedImageIds # {}
    /\ selectedImageIds \subseteq {allImages[i].id : i \in 1..Len(allImages)}
    /\ dbImages' = SelectSeq(dbImages, LAMBDA r : r.id \notin selectedImageIds)
    /\ allImages' = dbImages'
    /\ lastOp' = Did("confirmDeleteSelected")
    /\ UNCHANGED filterVars
    /\ UNCHANGED filteredImages
    /\ UNCHANGED <<variant, upload, stores, cascade, boot, recentTags, useLocalStorage, now, allTags, dbTags, tagFrequency, modal>>

(***************************************************************************)
(* Vocabulary: rename / merge and delete (app.js), add and delete          *)
(* (part_001).                                                             *)
(***************************************************************************)
\* openRenameTagModal(tag): a row of the tag list is clicked in edit mode
OpenRenameTagModal(tag) ==
    /\ variant = "app"
    /\ modal.kind = "none"
    /\ Includes(allTags, tag)
    /\ modal' = RenameTagModal(tag)
    /\ lastOp' = Did("openRenameTagModal")
    /\ UNCHANGED filterVars
    /\ UNCHANGED filteredImages
    /\ UNCHANGED <<variant, upload, stores, cascade, boot, recentTags, useLocalStorage, now, allImages, dbImages, allTags,
                   dbTags, tagFrequency>>

\* newTag.trim().replace(/\s+/g, ' ')
NormalizeTagName(newTag) == CollapseWhitespace(trim(newTag))

\* the rename on every image, without the pass through a Set
RenameInImagesKeepingDuplicates(images, oldTag, newTag) ==
    [i \in 1..Len(images) |->
        [images[i] EXCEPT !.tags = MapReplace(images[i].tags, oldTag, newTag)]]

\* img.tags.map(tag => tag === oldTag ? newTag : tag), then [...new Set(img.tags)]
RenameInImages(images, oldTag, newTag) ==
    [i \in 1..Len(images) |->
        [images[i] EXCEPT !.tags = Dedupe(MapReplace(images[i].tags, oldTag, newTag))]]

\* the vocabulary after a rename: oldTag leaves; newTag is pushed and the
\* list sorted unless it was there already
RenameInVocabulary(tags, oldTag, newTag, isExisting) ==
    IF ~isExisting THEN SortStrings(Append(Without(tags, oldTag), newTag))
    ELSE Without(tags, oldTag)

\* if (tagFrequency[oldTag]) { tagFrequency[newTag] = tagFrequency[oldTag];
\*                             delete tagFrequency[oldTag]; }
RenameInFrequency(freq, oldTag, newTag) ==
    IF FrequencyOf(freq, oldTag) # 0
    THEN DeleteKey(SetKey(freq, newTag, freq[oldTag]), oldTag)
    ELSE freq

\* the OK button of the rename dialog: renameTag(currentTagToRename, input.trim())
RenameTag(typed) ==
    LET oldTag == modal.tag
        newName == trim(typed)
        newTag == NormalizeTagName(newName)
        isExisting == Includes(allTags, newTag)
        images == RenameInImages(allImages, oldTag, newTag)
        tags == RenameInVocabulary(allTags, oldTag, newTag, isExisting)
    IN  /\ variant = "app"
        /\ modal.kind = "rename"
        /\ newName # <<>> /\ oldTag # NoTag
        /\ IF newName = oldTag
           THEN /\ modal' = NoModal
                /\ lastOp' = Did("renameTagSame")
                /\ UNCHANGED <<allImages, dbImages, allTags, dbTags, tagFrequency,
                               filteredImages>>
           ELSE IF newTag = <<>>
           THEN /\ lastOp' = Did("renameTagEmpty")
                /\ UNCHANGED <<allImages, dbImages, allTags, dbTags, tagFrequency, modal,
                               filteredImages>>
           ELSE /\ allImages' = images
                /\ dbImages' = DbUpdateAll(dbImages, images)
                /\ allTags' = tags
                /\ dbTags' = DbSaveTags(tags)
                /\ tagFrequency' = RenameInFrequency(tagFrequency, oldTag, newTag)
                /\ modal' = NoModal
                /\ filteredImages' = Refreshed(images)
                /\ lastOp' = Op("renameTag", oldTag, newTag, isExisting)
        /\ UNCHANGED filterVars
        /\ UNCHANGED <<variant, upload, stores, cascade, boot, recentTags, useLocalStorage, now>>

\* the cancel button of the rename dialog
CancelRename ==
    /\ modal.kind = "rename"
    /\ modal' = NoModal
    /\ lastOp' = Did("closeModal")
    /\ UNCHANGED filterVars
    /\ UNCHANGED filteredImages
    /\ UNCHANGED <<variant, upload, stores, cascade, boot, recentTags, useLocalStorage, now, allImages, dbImages, allTags,
                   dbTags, tagFrequency>>

\* openDeleteTagConfirm(tag): the confirm dialog shows tagFrequency[tag] || 0
OpenDeleteTagConfirm(tag) ==
    /\ variant = "app"
    /\ modal.kind = "none"
    /\ Includes(allTags, tag)
    /\ modal' = ConfirmModal(tag, FrequencyOf(tagFrequency, tag))
    /\ lastOp' = Did("openDeleteTagConfirm")
    /\ UNCHANGED filterVars
    /\ UNCHANGED filteredImages
    /\ UNCHANGED <<variant, upload, stores, cascade, boot, recentTags, useLocalStorage, now, allImages, dbImages, allTags,
                   dbTags, tagFrequency>>

\* img.tags = img.tags.filter(t => t !== tag) on every image
RemoveFromImages(images, tag) ==
    [i \in 1..Len(images) |-> [images[i] EXCEPT !.tags = Without(images[i].tags, tag)]]

\* deleteTag(): the OK button of the confirm dialog (app.js)
DeleteTag ==
    LET tag == modal.tag
        images == RemoveFromImages(allImages, tag)
        tags == Without(allTags, tag)
    IN  /\ variant = "app"
        /\ modal.kind = "confirm"
        /\ tag # NoTag
        /\ allImages' = images
        /\ dbImages' = DbUpdateAll(dbImages, images)
        /\ allTags' = tags
        /\ dbTags' = DbSaveTags(tags)
        /\ tagFrequency' = DeleteKey(tagFrequency, tag)
        /\ modal' = NoModal
        /\ lastOp' = Op("deleteTag", tag, NoTag, FALSE)
        /\ UNCHANGED filterVars
        /\ UNCHANGED <<variant, upload, stores, cascade, boot, recentTags, useLocalStorage, now>>
        /\ filteredImages' = Refreshed(allImages')

\* the cancel button of the confirm dialog
CancelConfirm ==
    /\ modal.kind = "confirm"
    /\ modal' = NoModal
    /\ lastOp' = Did("closeModal")
    /\ UNCHANGED filterVars
    /\ UNCHANGED filteredImages
    /\ UNCHANGED <<variant, upload, stores, cascade, boot, recentTags, useLocalStorage, now, allImages, dbImages, allTags,
                   dbTags, tagFrequency>>

\* openAddFreeTagModal + addNewFreeTagImmediate (part_001): prompt for a name
OpenAddFreeTagModal(typed) ==
    LET trimmed == trim(typed)
        tags == SortStrings(Append(allTags, trimmed))
    IN  /\ variant = "p1"
        /\ modal.kind = "none"
        /\ IF typed = <<>> \/ trimmed = <<>> \/ Includes(allTags, trimmed)
           THEN /\ lastOp' = Op("openAddFreeTagModal", typed, NoTag, FALSE)
                /\ UNCHANGED <<allTags, dbTags, tagFrequency>>
           ELSE /\ allTags' = tags
                /\ dbTags' = DbSaveTags(tags)
                /\ tagFrequency' = SetKey(tagFrequency, trimmed, 0)
                /\ lastOp' = Op("addNewFreeTagImmediate", typed, NoTag, TRUE)
        /\ UNCHANGED filterVars
        /\ UNCHANGED filteredImages
        /\ UNCHANGED <<variant, upload, stores, cascade, boot, recentTags, useLocalStorage, now, allImages, dbImages, modal>>

\* whether deleteFreeTags strips the tag from the images: only when the cached
\* count is positive
DeleteFreeTagsCascades(count) == count > 0

\* deleteFreeTags(tag) (part_001): the delete button of a vocabulary row;
\* confirmed is the answer to window.confirm
DeleteFreeTags(tag, confirmed) ==
    LET count == FrequencyOf(tagFrequency, tag)
        images == RemoveFromImages(allImages, tag)
        tags == Without(allTags, tag)
    IN  /\ variant = "p1"
        /\ modal.kind = "none"
        /\ Includes(allTags, tag)
        /\ IF ~confirmed
           THEN /\ lastOp' = Did("deleteFreeTagsCancelled")
                /\ UNCHANGED <<allImages, dbImages, allTags, dbTags, tagFrequency,
                               filteredImages>>
           ELSE /\ IF DeleteFreeTagsCascades(count)
                   THEN /\ allImages' = images
                        /\ dbImages' = DbUpdateAll(dbImages, images)
                   ELSE UNCHANGED <<allImages, dbImages>>
                /\ allTags' = tags
                /\ tagFrequency' = DeleteKey(tagFrequency, tag)
                /\ dbTags' = DbSaveTags(tags)
                /\ filteredImages' = Refreshed(allImages')
                /\ lastOp' = Op("deleteTag", tag, NoTag, FALSE)
        /\ UNCHANGED filterVars
        /\ UNCHANGED <<variant, upload, stores, cascade, boot, recentTags, useLocalStorage, now, modal>>

Next ==
    \/ Reload
    \/ HandleFiles
    \/ \E id \in 1..MaxUploads : OpenEditModal(id)
    \/ \E tag \in PickerTags : SelectTag(tag)
    \/ \E tag \in Range(allTags) : SelectFreeTagInEdit(tag)
    \/ \E typed \in TypedTags : CreateNewFreeTagInEdit(typed)
    \/ \E tag \in UNION {Range(allImages[i].tags) : i \in 1..Len(allImages)} :
          RemoveEditTag(tag)
    \/ SaveImageEdit
    \/ CloseEditModal
    \/ DeleteImage
    \/ \E typed \in TypedTags : AddEditTag(typed)
    \/ \E at \in 1..MaxTagsPerItem : RemoveEditTagEl(at)
    \/ SaveEditImage
    \/ \E selectedImageIds \in SUBSET (1..MaxUploads) : ConfirmDeleteSelected(selectedImageIds)
    \/ \E tag \in Range(allTags) : OpenRenameTagModal(tag)
    \/ \E typed \in RenameInputs : RenameTag(typed)
    \/ CancelRename
    \/ \E tag \in Range(allTags) : OpenDeleteTagConfirm(tag)
    \/ DeleteTag
    \/ CancelConfirm
    \/ \E typed \in PromptAnswers : OpenAddFreeTagModal(typed)
    \/ \E tag \in Range(allTags), confirmed \in BOOLEAN : DeleteFreeTags(tag, confirmed)

Spec == Init /\ [][Next]_vars

(***************************************************************************)
(* The search tab: filters, and the structured tags they filter by.        *)
(***************************************************************************)
\* the toggle of a picked tag in the filter list
ToggleInList(list, x) ==
    LET index == IndexOf(list, x)
    IN  IF index # 0 THEN RemoveAt(list, index) ELSE Append(list, x)

\* selectTag(tag) with the picker opened from the search tab (app.js), the
\* click on a tag chip (part_000), selectFreeTag(tag) (part_001)
SelectSearchTag(tag) ==
    LET picked == IF variant = "p1" THEN tag ELSE toLowerCase(tag)
        active == ToggleInList(activeSearchTags, picked)
    IN  /\ modal.kind = "none"
        /\ activeSearchTags' = active
        /\ filteredImages' = ApplyFilters(variant, sortBy, allImages, structuredTagsConfig,
                                          structuredFilters, active, filterMode, searchText)
        /\ recentTags' = IF variant = "p0" THEN RecordTagUsage(recentTags, tag)
                         ELSE recentTags
        /\ lastOp' = Did("selectSearchTag")
        /\ UNCHANGED <<variant, upload, stores, cascade, boot, sortBy, useLocalStorage, now, allImages, dbImages, allTags, dbTags,
                       tagFrequency, modal, structuredTagsConfig, structuredFilters,
                       filterMode, searchText>>

\* removeSearchTag(tag): the x of an active filter
RemoveSearchTag(tag) ==
    LET active == Without(activeSearchTags, tag)
    IN  /\ modal.kind = "none"
        /\ Includes(activeSearchTags, tag)
        /\ activeSearchTags' = active
        /\ filteredImages' = ApplyFilters(variant, sortBy, allImages, structuredTagsConfig,
                                          structuredFilters, active, filterMode, searchText)
        /\ lastOp' = Did("removeSearchTag")
        /\ UNCHANGED <<variant, upload, stores, cascade, boot, recentTags, sortBy, useLocalStorage, now, allImages, dbImages, allTags, dbTags,
                       tagFrequency, modal, structuredTagsConfig, structuredFilters,
                       filterMode, searchText>>

\* the change of the filterMode radio (app.js, part_001); the click on
\* #toggleFilterMode (part_000)
SetFilterMode(mode) ==
    /\ modal.kind = "none"
    /\ IF variant = "p0" THEN mode # filterMode ELSE TRUE
    /\ filterMode' = mode
    /\ filteredImages' = ApplyFilters(variant, sortBy, allImages, structuredTagsConfig,
                                      structuredFilters, activeSearchTags, mode, searchText)
    /\ lastOp' = Did("setFilterMode")
    /\ UNCHANGED <<variant, upload, stores, cascade, boot, recentTags, sortBy, useLocalStorage, now, allImages, dbImages, allTags, dbTags,
                   tagFrequency, modal, structuredTagsConfig, structuredFilters,
                   activeSearchTags, searchText>>

\* the input event of #searchInput (app.js, part_001)
SearchInput(text) ==
    /\ variant \in {"app", "p1"}
    /\ modal.kind = "none"
    /\ searchText' = text
    /\ filteredImages' = ApplyFilters(variant, sortBy, allImages, structuredTagsConfig,
                                      structuredFilters, activeSearchTags, filterMode, text)
    /\ lastOp' = Did("searchInput")
    /\ UNCHANGED <<variant, upload, stores, cascade, boot, recentTags, sortBy, useLocalStorage, now, allImages, dbImages, allTags, dbTags,
                   tagFrequency, modal, structuredTagsConfig, structuredFilters,
                   activeSearchTags, filterMode>>

\* the change of the #sortBy select
SetSortBy(value) ==
    /\ modal.kind = "none"
    /\ sortBy' = value
    /\ filteredImages' = ApplyFilters(variant, value, allImages, structuredTagsConfig,
                                      structuredFilters, activeSearchTags, filterMode,
                                      searchText)
    /\ lastOp' = Did("setSortBy")
    /\ UNCHANGED <<variant, upload, stores, cascade, boot, recentTags, useLocalStorage, now, allImages, dbImages, allTags, dbTags,
                   tagFrequency, modal, structuredTagsConfig, structuredFilters,
                   activeSearchTags, filterMode, searchText>>

\* selectStructuredFilter(key, value) (part_001)
SelectStructuredFilter(key, value) ==
    LET current == structuredFilters[key]
        filters == [structuredFilters EXCEPT ![key] =
                       IF structuredTagsConfig[key].multi
                       THEN Arr(ToggleInList(current.arr, value))
                       ELSE IF StrictEquals(current, Str(value)) THEN Null ELSE Str(value)]
    IN  /\ variant = "p1"
        /\ modal.kind = "none"
        /\ key \in DOMAIN structuredTagsConfig
        /\ structuredFilters' = filters
        /\ filteredImages' = ApplyFilters(variant, sortBy, allImages, structuredTagsConfig, filters,
                                          activeSearchTags, filterMode, searchText)
        /\ lastOp' = Did("selectStructuredFilter")
        /\ UNCHANGED <<variant, upload, stores, cascade, boot, recentTags, sortBy, useLocalStorage, now, allImages, dbImages, allTags, dbTags,
                       tagFrequency, modal, structuredTagsConfig, activeSearchTags,
                       filterMode, searchText>>

SetStructured(images, index, key, v) ==
    [images EXCEPT ![index].structuredTags =
        [k \in (DOMAIN @) \cup {key} |-> IF k = key THEN v ELSE @[k]]]

\* setStructuredTagInEdit(key, value): a chip of a single-valued category
SetStructuredTagInEdit(key, value) ==
    LET index == EditedIndex
        current == Get(allImages[index].structuredTags, key)
    IN  /\ variant = "p1"
        /\ modal.kind = "edit"
        /\ index # 0
        /\ key \in DOMAIN structuredTagsConfig
        /\ ~structuredTagsConfig[key].multi
        /\ allImages' = SetStructured(allImages, index, key,
                            IF StrictEquals(current, Str(value)) THEN Null ELSE Str(value))
        /\ lastOp' = Did("setStructuredTagInEdit")
        /\ UNCHANGED <<variant, upload, stores, cascade, boot, recentTags, useLocalStorage, now, dbImages, allTags, dbTags,
                       tagFrequency, modal, filterVars, filteredImages>>

\* toggleStructuredTagInEdit(key, value): a chip of a multi-valued category.
\* A value that is a string has indexOf but neither splice nor push: the
\* handler throws and the image stays as it is.
ToggleStructuredTagInEdit(key, value) ==
    LET index == EditedIndex
        current == Get(allImages[index].structuredTags, key)
        started == IF Truthy(current) THEN current ELSE Arr(<<>>)
    IN  /\ variant = "p1"
        /\ modal.kind = "edit"
        /\ index # 0
        /\ key \in DOMAIN structuredTagsConfig
        /\ structuredTagsConfig[key].multi
        /\ allImages' = IF started.type = "array"
                        THEN SetStructured(allImages, index, key,
                                           Arr(ToggleInList(started.arr, value)))
                        ELSE allImages
        /\ lastOp' = Did("toggleStructuredTagInEdit")
        /\ UNCHANGED <<variant, upload, stores, cascade, boot, recentTags, useLocalStorage, now, dbImages, allTags, dbTags,
                       tagFrequency, modal, filterVars, filteredImages>>

\* openEditCategoryModal(key): the edit button of a category row
OpenEditCategoryModal(key) ==
    /\ variant = "p1"
    /\ modal.kind = "none"
    /\ key \in DOMAIN structuredTagsConfig
    /\ modal' = CategoryModal(key)
    /\ lastOp' = Did("openEditCategoryModal")
    /\ UNCHANGED <<variant, upload, stores, cascade, boot, recentTags, useLocalStorage, now, allImages, dbImages, allTags, dbTags,
                   tagFrequency, filterVars, filteredImages>>

\* saveCategory that resets the values whether or not the label changed
SaveCategoryResettingAlways(name, multi) ==
    LET key == modal.tag
        empty == IF multi THEN Arr(<<>>) ELSE Null
        images == [i \in 1..Len(allImages) |-> SetStructured(allImages, i, key, empty)[i]]
        config == [structuredTagsConfig EXCEPT ![key] = [label |-> name, multi |-> multi]]
        filters == [structuredFilters EXCEPT ![key] = empty]
    IN  /\ variant = "p1"
        /\ modal.kind = "category"
        /\ allImages' = images
        /\ structuredTagsConfig' = config
        /\ structuredFilters' = filters
        /\ modal' = NoModal
        /\ filteredImages' = ApplyFilters(variant, sortBy, images, config, filters,
                                          activeSearchTags, filterMode, searchText)
        /\ lastOp' = Did("saveCategory")
        /\ UNCHANGED <<variant, upload, stores, cascade, boot, recentTags, sortBy, useLocalStorage, now, dbImages, allTags, dbTags,
                       tagFrequency, activeSearchTags, filterMode, searchText>>

\* saveCategory() on an existing category, with a name and at least one
\* value typed: a changed label resets the value on every image, the filter
\* of the category is emptied, the images are not written to storage
SaveCategory(name, multi) ==
    LET key == modal.tag
        oldConfig == structuredTagsConfig[key]
        empty == IF multi THEN Arr(<<>>) ELSE Null
        images == IF oldConfig.label # name
                  THEN [i \in 1..Len(allImages) |->
                           SetStructured(allImages, i, key, empty)[i]]
                  ELSE allImages
        config == [structuredTagsConfig EXCEPT ![key] = [label |-> name, multi |-> multi]]
        filters == [structuredFilters EXCEPT ![key] = empty]
    IN  /\ variant = "p1"
        /\ modal.kind = "category"
        /\ allImages' = images
        /\ structuredTagsConfig' = config
        /\ structuredFilters' = filters
        /\ modal' = NoModal
        /\ filteredImages' = ApplyFilters(variant, sortBy, images, config, filters,
                                          activeSearchTags, filterMode, searchText)
        /\ lastOp' = Did("saveCategory")
        /\ UNCHANGED <<variant, upload, stores, cascade, boot, recentTags, sortBy, useLocalStorage, now, dbImages, allTags, dbTags,
                       tagFrequency, activeSearchTags, filterMode, searchText>>

\* the cancel button of the category dialog
CancelCategory ==
    /\ modal.kind = "category"
    /\ modal' = NoModal
    /\ lastOp' = Did("closeModal")
    /\ UNCHANGED <<variant, upload, stores, cascade, boot, recentTags, useLocalStorage, now, allImages, dbImages, allTags, dbTags,
                   tagFrequency, filterVars, filteredImages>>

\* delete obj[key]
DeleteProperty(obj, key) == [k \in (DOMAIN obj) \ {key} |-> obj[k]]

\* deleteCategory(key): the delete button of a category row; confirmed is the
\* answer to window.confirm.  The images are not written to storage.
DeleteCategory(key, confirmed) ==
    LET images == [i \in 1..Len(allImages) |->
                      [allImages[i] EXCEPT
                          !.structuredTags = DeleteProperty(@, key)]]
        config == DeleteProperty(structuredTagsConfig, key)
        filters == DeleteProperty(structuredFilters, key)
    IN  /\ variant = "p1"
        /\ modal.kind = "none"
        /\ key \in DOMAIN structuredTagsConfig
        /\ IF ~confirmed
           THEN /\ lastOp' = Did("deleteCategoryCancelled")
                /\ UNCHANGED <<allImages, structuredTagsConfig, structuredFilters,
                               filteredImages>>
           ELSE /\ allImages' = images
                /\ structuredTagsConfig' = config
                /\ structuredFilters' = filters
                /\ filteredImages' = ApplyFilters(variant, sortBy, images, config, filters,
                                                  activeSearchTags, filterMode, searchText)
                /\ lastOp' = Did("deleteCategory")
        /\ UNCHANGED <<variant, upload, stores, cascade, boot, recentTags, useLocalStorage, now, dbImages, allTags, dbTags,
                       tagFrequency, modal, activeSearchTags, filterMode, searchText,
                       sortBy>>

\* A stored image as the edit dialogs leave it.
Image(id, tags, memo, createdAt) ==
    [id |-> id, tags |-> tags, memo |-> memo,
     structuredTags |-> EmptyValues(DefaultStructuredTagsConfig), createdAt |-> createdAt]

\* The catalogs the search tab is exercised on; the second holds two images
\* of one upload batch, created within the same millisecond.
StoredCatalogs ==
    {<<Image(1, <<tA, tB>>, <<>>, 1), Image(2, <<tA>>, <<"B">>, 2)>>,
     <<Image(1, <<tUpperA>>, <<>>, 1), Image(2, <<tA>>, <<"B">>, 1)>>}

\* the page is loaded on a stored catalog
InitQuery ==
    /\ variant \in Variants
    /\ useLocalStorage = FALSE
    /\ boot = Booted
    /\ cascade = NoCascade
    /\ stores = NoStores
    /\ upload = NoUpload
    /\ now = MaxUploads
    /\ dbImages \in StoredCatalogs
    /\ allImages = dbImages
    /\ dbTags = SortStrings(<<tA, tB, tUpperA>>)
    /\ allTags = dbTags
    /\ tagFrequency = IF variant = "p0" THEN <<>> ELSE ComputeTagFrequency(dbImages)
    /\ recentTags = <<>>
    /\ modal = NoModal
    /\ structuredTagsConfig = DefaultStructuredTagsConfig
    /\ structuredFilters = EmptyValues(structuredTagsConfig)
    /\ activeSearchTags = <<>>
    /\ filterMode = "and"
    /\ searchText = <<>>
    /\ sortBy = "newest"
    /\ filteredImages = <<>>
    /\ lastOp = Did("loadAllData")

NextQuery ==
    \/ Reload
    \/ \E tag \in SearchPicks : SelectSearchTag(tag)
    \/ \E tag \in Range(activeSearchTags) : RemoveSearchTag(tag)
    \/ \E mode \in {"and", "or"} : SetFilterMode(mode)
    \/ \E text \in SearchTexts : SearchInput(text)
    \/ \E value \in {"newest", "oldest"} : SetSortBy(value)
    \/ \E key \in Keys, value \in StructuredValues : SelectStructuredFilter(key, value)
    \/ variant = "p1" /\ OpenEditModal(1)
    \/ \E key \in Keys, value \in EditValues : SetStructuredTagInEdit(key, value)
    \/ \E key \in Keys, value \in EditValues : ToggleStructuredTagInEdit(key, value)
    \/ variant = "p1" /\ SaveImageEdit
    \/ \E key \in Keys : OpenEditCategoryModal(key)
    \/ \E name \in CategoryNames, multi \in BOOLEAN : SaveCategory(name, multi)
    \/ CancelCategory
    \/ \E key \in Keys, confirmed \in BOOLEAN : DeleteCategory(key, confirmed)

SpecQuery == InitQuery /\ [][NextQuery]_vars

(***************************************************************************)
(* The vocabulary through TagManager.addTag (app.js, part_000) and         *)
(* openAddFreeTagModal (part_001).                                         *)
(***************************************************************************)
\* what the promise of TagManager.addTag(tag) resolves with: the bare return
\* of the early exit, and the end of the function body
AddTagReturns(tags, tag) ==
    IF ~AddTagInserts(tags, tag) THEN "undefined" ELSE "undefined"

\* tagManager.addTag(tag); TagManager of app.js keeps no recent tags
AddTagCall(tag) ==
    LET tags == AddTag(allTags, tag)
    IN  /\ variant \in {"app", "p0"}
        /\ allTags' = tags
        /\ dbTags' = IF AddTagInserts(allTags, tag) THEN DbSaveTags(tags) ELSE dbTags
        /\ recentTags' = IF variant = "p0" THEN RecentAfterAddTag(allTags, recentTags, tag)
                         ELSE recentTags
        /\ lastOp' = Returned("addTag", tag, AddTagReturns(allTags, tag))
        /\ UNCHANGED filterVars
        /\ UNCHANGED <<variant, upload, stores, cascade, boot, useLocalStorage, now, allImages, dbImages, tagFrequency,
                       modal, filteredImages>>

NextTags ==
    \/ \E tag \in AddTagInputs : AddTagCall(tag)
    \/ \E typed \in AddTagInputs : OpenAddFreeTagModal(typed)

SpecTags == Init /\ [][NextTags]_vars

(***************************************************************************)
(* The recent tags through TagManager.recordTagUsage (part_000).           *)
(***************************************************************************)
\* tagManager.recordTagUsage(tag)
RecordTagUsageCall(tag) ==
    /\ variant = "p0"
    /\ recentTags' = RecordTagUsage(recentTags, tag)
    /\ lastOp' = Op("recordTagUsage", tag, NoTag, FALSE)
    /\ UNCHANGED filterVars
    /\ UNCHANGED <<variant, upload, stores, cascade, boot, useLocalStorage, now, allImages, dbImages, allTags, dbTags,
                   tagFrequency, modal, filteredImages>>

InitRecent == Init /\ variant = "p0"

\* recordTagUsage compares tags for equality only, so the names are met in
\* the order of UsageTags: the i-th name is first recorded once i - 1 others
\* are in the list; every name already met may be recorded again.
NextRecent ==
    \E i \in 1..Len(UsageTags) :
        /\ Len(recentTags) >= i - 1
        /\ RecordTagUsageCall(UsageTags[i])

SpecRecent == InitRecent /\ [][NextRecent]_vars

(***************************************************************************)
(* Settings: export and import.                                            *)
(***************************************************************************)
\* JSON.stringify then JSON.parse of an object: a property that holds
\* undefined is left out
JsonObject(obj) == [k \in {key \in DOMAIN obj : obj[key].type # "undefined"} |-> obj[k]]

JsonImage(img) == [img EXCEPT !.structuredTags = JsonObject(img.structuredTags)]

\* the export file read back: JSON.parse(JSON.stringify(data))
JsonData(data) ==
    [data EXCEPT !.images = [i \in 1..Len(data.images) |-> JsonImage(data.images[i])]]

\* exportData(): app.js and part_001 write appState out, the class-based
\* script reads the stores; only part_001 writes structuredTagsConfig
ExportData ==
    [images |-> IF variant = "p0" THEN dbImages ELSE allImages,
     tags |-> IF variant = "p0" THEN dbTags ELSE allTags,
     hasConfig |-> variant = "p1",
     config |-> structuredTagsConfig]

\* a file of the first format: one image under an id the catalog holds, one
\* new image, no structuredTagsConfig
FileOverlapping ==
    [images |-> <<Image(2, <<tB>>, <<>>, 3), Image(3, <<tAb>>, <<>>, 3)>>,
     tags |-> <<tB, tAb>>, hasConfig |-> FALSE, config |-> <<>>]

\* a file with a new image and, for part_001, the category under another label
FileNew ==
    [images |-> <<Image(3, <<tAb>>, <<>>, 3)>>,
     tags |-> <<tAb>>, hasConfig |-> variant = "p1",
     config |-> IF variant = "p1" THEN [key \in Keys |-> [label |-> tB, multi |-> TRUE]]
                ELSE <<>>]

\* a part_001 file without categories: structuredTagsConfig is {}
FileNoCategories ==
    [images |-> <<Image(3, <<tAb>>, <<>>, 3)>>,
     tags |-> <<tAb>>, hasConfig |-> TRUE, config |-> <<>>]

ImportFiles ==
    IF variant = "p1" THEN {FileOverlapping, FileNew, FileNoCategories}
    ELSE {FileOverlapping, FileNew}

\* the files the file dialog offers: the fixed ones and the export just made
ImportInputs == ImportFiles \cup {JsonData(ExportData)}

\* {...a, ...b}
Spread(a, b) == [k \in (DOMAIN a) \cup (DOMAIN b) |-> IF k \in DOMAIN b THEN b[k] ELSE a[k]]

\* for (const image of data.images) await dbSaveImage(image): the first
\* rejected add ends the loop and the try block
RECURSIVE DbSaveImages(_, _)
DbSaveImages(store, images) ==
    IF images = <<>> THEN [store |-> store, ok |-> TRUE]
    ELSE IF ~DbSaveImageOk(store, Head(images)) THEN [store |-> store, ok |-> FALSE]
    ELSE DbSaveImages(DbSaveImage(store, Head(images)), Tail(images))

\* DatabaseManager.importData: try { await this.saveImage(image) } catch
\* { console.warn }: a rejected add is passed over
RECURSIVE SaveImagesSkippingRejected(_, _)
SaveImagesSkippingRejected(store, images) ==
    IF images = <<>> THEN store
    ELSE IF ~DbSaveImageOk(store, Head(images))
         THEN SaveImagesSkippingRejected(store, Tail(images))
    ELSE SaveImagesSkippingRejected(DbSaveImage(store, Head(images)), Tail(images))

\* importData(e) of app.js and part_001; merge is the answer to
\* confirm('기존과 병합?')
ImportData(data, merge) ==
    LET images == (IF merge THEN allImages ELSE <<>>) \o data.images
        \* app.js empties allImages only; part_001 empties allFreeTags too
        tags == Dedupe((IF merge \/ variant = "app" THEN allTags ELSE <<>>) \o data.tags)
        merged == variant = "p1" /\ data.hasConfig
        config == IF merged THEN Spread(structuredTagsConfig, data.config)
                  ELSE structuredTagsConfig
        \* localStorage.clear() takes the saved structuredTagsConfig away;
        \* loadStructuredTagsConfig then falls back to the default
        loadedConfig == IF ~merge /\ useLocalStorage /\ ~merged
                        THEN DefaultStructuredTagsConfig ELSE config
        saved == DbSaveImages(IF merge THEN dbImages ELSE <<>>, data.images)
    IN  /\ variant \in {"app", "p1"}
        /\ modal.kind = "none"
        /\ dbImages' = saved.store
        /\ IF saved.ok
           THEN /\ allImages' = saved.store
                /\ allTags' = LoadedTags(DbSaveTags(tags))
                /\ dbTags' = IF HasDefaultTags /\ tags = <<>> THEN DbSaveTags(DefaultTags)
                             ELSE DbSaveTags(tags)
                /\ tagFrequency' = ComputeTagFrequency(saved.store)
                /\ structuredTagsConfig' = loadedConfig
                /\ structuredFilters' = IF variant = "p1" THEN EmptyValues(loadedConfig)
                                        ELSE structuredFilters
                /\ filteredImages' =
                       ApplyFilters(variant, sortBy, allImages', structuredTagsConfig',
                                    structuredFilters', activeSearchTags, filterMode,
                                    searchText)
                /\ lastOp' = Imported(data, merge, TRUE)
           ELSE /\ allImages' = images
                /\ allTags' = tags
                /\ dbTags' = DbSaveTags(tags)
                /\ structuredTagsConfig' = config
                /\ UNCHANGED <<tagFrequency, structuredFilters, filteredImages>>
                /\ lastOp' = Imported(data, merge, FALSE)
        /\ UNCHANGED <<variant, upload, stores, cascade, boot, recentTags, useLocalStorage, now, modal, activeSearchTags,
                       filterMode, searchText, sortBy>>

\* UIManager.importData(file) with DatabaseManager.importData(data, merge) of
\* the class-based script of app.js, whose classes part_000 repeats
ImportDataV1(data, merge) ==
    LET store == SaveImagesSkippingRejected(IF merge THEN dbImages ELSE <<>>, data.images)
        tags == DbSaveTags(Dedupe((IF merge THEN dbTags ELSE <<>>) \o data.tags))
    IN  /\ variant = "p0"
        /\ modal.kind = "none"
        /\ dbImages' = store
        /\ allImages' = store
        /\ allTags' = LoadedTags(tags)
        /\ dbTags' = IF tags = <<>> THEN DbSaveTags(DefaultTags) ELSE tags
        /\ filteredImages' =
               ApplyFilters(variant, sortBy, store, structuredTagsConfig, structuredFilters,
                            activeSearchTags, filterMode, searchText)
        /\ lastOp' = Imported(data, merge, TRUE)
        /\ UNCHANGED <<variant, upload, stores, cascade, boot, recentTags, useLocalStorage, now, tagFrequency, modal,
                       structuredTagsConfig, structuredFilters, activeSearchTags,
                       filterMode, searchText, sortBy>>

\* the page is loaded on a stored catalog of two images
InitImport ==
    /\ variant \in Variants
    /\ useLocalStorage \in IF variant = "p0" THEN {FALSE} ELSE BOOLEAN
    /\ boot = Booted
    /\ cascade = NoCascade
    /\ stores = NoStores
    /\ upload = NoUpload
    /\ now = MaxUploads
    /\ dbImages = <<Image(1, <<tA, tB>>, <<>>, 1), Image(2, <<tA>>, <<"B">>, 2)>>
    /\ allImages = dbImages
    /\ dbTags = SortStrings(<<tA, tB>>)
    /\ allTags = dbTags
    /\ tagFrequency = IF variant = "p0" THEN <<>> ELSE ComputeTagFrequency(dbImages)
    /\ recentTags = <<>>
    /\ modal = NoModal
    /\ structuredTagsConfig = DefaultStructuredTagsConfig
    /\ structuredFilters = EmptyValues(structuredTagsConfig)
    /\ activeSearchTags = <<>>
    /\ filterMode = "and"
    /\ searchText = <<>>
    /\ sortBy = "newest"
    /\ filteredImages = <<>>
    /\ lastOp = Did("loadAllData")

\* a merge adds to the catalog, so it is made into catalogs of at most
\* MaxUploads images
MergeAnswers == IF Len(allImages) <= MaxUploads THEN BOOLEAN ELSE {FALSE}

NextImport ==
    \/ \E data \in ImportInputs, merge \in MergeAnswers : ImportData(data, merge)
    \/ \E data \in ImportInputs, merge \in MergeAnswers : ImportDataV1(data, merge)
    \/ Reload
    \/ \E tag \in Range(allTags) : OpenDeleteTagConfirm(tag)
    \/ DeleteTag
    \/ CancelConfirm
    \/ \E tag \in Range(allTags), confirmed \in BOOLEAN : DeleteFreeTags(tag, confirmed)
    \/ \E key \in Keys, confirmed \in BOOLEAN : DeleteCategory(key, confirmed)

SpecImport == InitImport /\ [][NextImport]_vars

(***************************************************************************)
(* Start-up: the DOMContentLoaded handler.                                 *)
(***************************************************************************)
\* DOMContentLoaded: initDB() of app.js and part_001 has asked for the
\* database and awaits its promise; initApp() of the class-based script and
\* of part_000 has constructed DatabaseManager and polls db.db
InitBoot ==
    /\ variant \in Variants
    /\ boot = Boot("pending", IF variant = "p0" THEN "polling" ELSE "initDB")
    /\ cascade = NoCascade
    /\ stores = NoStores
    /\ upload = NoUpload
    /\ useLocalStorage = FALSE
    /\ now = 0
    /\ allImages = <<>>
    /\ dbImages = <<>>
    /\ allTags = <<>>
    /\ dbTags = <<>>
    /\ tagFrequency = <<>>
    /\ recentTags = <<>>
    /\ modal = NoModal
    /\ structuredTagsConfig = <<>>
    /\ structuredFilters = <<>>
    /\ activeSearchTags = <<>>
    /\ filterMode = "and"
    /\ searchText = <<>>
    /\ sortBy = "newest"
    /\ filteredImages = <<>>
    /\ lastOp = Did("DOMContentLoaded")

\* request.onsuccess / request.onerror.  initDB resolves its promise in
\* both and turns to localStorage in onerror; DatabaseManager.init sets
\* this.db in onsuccess and only logs in onerror
OpenRequestDone(ok) ==
    /\ boot.request = "pending"
    /\ boot' = Boot(IF ok THEN "open" ELSE "failed",
                    IF variant = "p0" THEN boot.at ELSE "loadAllData")
    /\ useLocalStorage' = (variant # "p0" /\ ~ok)
    /\ lastOp' = Did(IF ok THEN "onsuccess" ELSE "onerror")
    /\ UNCHANGED filterVars
    /\ UNCHANGED <<variant, upload, stores, cascade, now, allImages, dbImages, allTags, dbTags, tagFrequency,
                   recentTags, modal, filteredImages>>

\* the setInterval callback of initApp: if (db.db) { clearInterval; resolve }
CheckDb ==
    /\ variant = "p0"
    /\ boot.at = "polling"
    /\ IF boot.request = "open"
       THEN /\ boot' = Boot(boot.request, "loadAllData")
            /\ lastOp' = Did("checkDb")
       ELSE UNCHANGED <<boot, lastOp>>
    /\ UNCHANGED filterVars
    /\ UNCHANGED <<variant, upload, stores, cascade, useLocalStorage, now, allImages, dbImages, allTags, dbTags,
                   tagFrequency, recentTags, modal, filteredImages>>

\* what follows the awaited promise: loadStructuredTagsConfig (part_001),
\* loadAllData, setupAllEventListeners; initTags and loadImages in initApp
LoadAfterInit ==
    /\ boot.at = "loadAllData"
    /\ boot' = Boot(boot.request, "ready")
    /\ structuredTagsConfig' = DefaultStructuredTagsConfig
    /\ allImages' = dbImages
    /\ allTags' = LoadedTags(dbTags)
    /\ dbTags' = IF HasDefaultTags /\ Len(dbTags) = 0 THEN DbSaveTags(DefaultTags) ELSE dbTags
    /\ tagFrequency' = IF variant = "p0" THEN <<>> ELSE ComputeTagFrequency(dbImages)
    /\ structuredFilters' = EmptyValues(DefaultStructuredTagsConfig)
    /\ lastOp' = Did("loadAllData")
    /\ UNCHANGED <<variant, upload, stores, cascade, useLocalStorage, now, dbImages, recentTags, modal,
                   activeSearchTags, filterMode, searchText, sortBy, filteredImages>>

\* the event listeners are set up at the end of start-up
Ready == boot.at = "ready"

NextBoot ==
    \/ \E ok \in BOOLEAN : OpenRequestDone(ok)
    \/ CheckDb
    \/ LoadAfterInit
    \/ Ready /\ HandleFiles
    \/ Ready /\ \E id \in 1..MaxUploads : OpenEditModal(id)
    \/ Ready /\ \E tag \in PickerTags : SelectTag(tag)
    \/ Ready /\ \E typed \in TypedTags : AddEditTag(typed)
    \/ Ready /\ \E typed \in TypedTags : CreateNewFreeTagInEdit(typed)
    \/ Ready /\ SaveImageEdit
    \/ Ready /\ SaveEditImage
    \/ Ready /\ DeleteImage
    \/ Ready /\ Reload

SpecBoot == InitBoot /\ [][NextBoot]_vars

\* the browser answers the open request, timers fire and awaited promises
\* are continued
SpecBootFair ==
    /\ SpecBoot
    /\ WF_vars(\E ok \in BOOLEAN : OpenRequestDone(ok))
    /\ WF_vars(CheckDb)
    /\ WF_vars(LoadAfterInit)

(***************************************************************************)
(* renameTag and deleteTag of app.js with IndexedDB, await by await: a      *)
(* request of an object store is answered in a later task, so other        *)
(* handlers run between two awaits.  With localStorage every awaited       *)
(* promise is already resolved and the call runs through in one task.      *)
(***************************************************************************)
\* the vocabulary after the item loop of the call
VocabularyAfter(c, tags) ==
    IF c.op = "renameTag" THEN RenameInVocabulary(tags, c.a, c.b, c.flag)
    ELSE Without(tags, c.a)

\* the call up to its first await: the in-memory images are rewritten, then
\* the first dbUpdateImage is awaited, or dbSaveTags when there is no image
BeginCascade(c, images) ==
    /\ ~useLocalStorage
    /\ cascade = NoCascade
    /\ allImages' = images
    /\ IF images = <<>>
       THEN /\ allTags' = VocabularyAfter(c, allTags)
            /\ cascade' = [c EXCEPT !.at = "tags"]
       ELSE /\ cascade' = [c EXCEPT !.at = "images", !.next = 1]
            /\ UNCHANGED allTags
    /\ UNCHANGED filterVars
    /\ UNCHANGED <<variant, upload, stores, boot, recentTags, useLocalStorage, now, dbImages, dbTags,
                   tagFrequency, modal, filteredImages>>

\* the OK button of the rename dialog, for a name that passes both checks
BeginRenameTag(typed) ==
    LET oldTag == modal.tag
        newName == trim(typed)
        newTag == NormalizeTagName(newName)
    IN  /\ variant = "app"
        /\ modal.kind = "rename"
        /\ newName # <<>> /\ oldTag # NoTag
        /\ newName # oldTag /\ newTag # <<>>
        /\ BeginCascade(Cascade("renameTag", oldTag, newTag, Includes(allTags, newTag),
                                "images", 1),
                        RenameInImages(allImages, oldTag, newTag))
        /\ lastOp' = Did("renameTagCalled")

\* the OK button of the confirm dialog
BeginDeleteTag ==
    LET tag == modal.tag
    IN  /\ variant = "app"
        /\ modal.kind = "confirm"
        /\ tag # NoTag
        /\ BeginCascade(Cascade("deleteTag", tag, NoTag, FALSE, "images", 1),
                        RemoveFromImages(allImages, tag))
        /\ lastOp' = Did("deleteTagCalled")

\* the awaited request is answered and the call goes on to its next await,
\* or to its end
ContinueCascade ==
    /\ cascade # NoCascade
    /\ IF cascade.at = "images"
       THEN /\ dbImages' = DbUpdateImage(dbImages, allImages[cascade.next])
            /\ IF cascade.next < Len(allImages)
               THEN /\ cascade' = [cascade EXCEPT !.next = @ + 1]
                    /\ UNCHANGED allTags
               ELSE /\ cascade' = [cascade EXCEPT !.at = "tags"]
                    /\ allTags' = VocabularyAfter(cascade, allTags)
            /\ lastOp' = Did("dbUpdateImage")
            /\ UNCHANGED <<dbTags, tagFrequency, modal, filteredImages>>
       ELSE /\ dbTags' = DbSaveTags(allTags)
            /\ tagFrequency' = IF cascade.op = "renameTag"
                               THEN RenameInFrequency(tagFrequency, cascade.a, cascade.b)
                               ELSE DeleteKey(tagFrequency, cascade.a)
            /\ modal' = IF modal.kind = (IF cascade.op = "renameTag" THEN "rename"
                                         ELSE "confirm")
                        THEN NoModal ELSE modal
            /\ filteredImages' = Refreshed(allImages)
            /\ cascade' = NoCascade
            /\ lastOp' = Op(cascade.op, cascade.a, cascade.b, cascade.flag)
            /\ UNCHANGED <<dbImages, allTags>>
    /\ UNCHANGED filterVars
    /\ UNCHANGED <<variant, upload, stores, boot, recentTags, useLocalStorage, now, allImages>>

\* app.js is loaded on a stored catalog
InitCascade ==
    /\ variant = "app"
    /\ useLocalStorage \in BOOLEAN
    /\ boot = Booted
    /\ cascade = NoCascade
    /\ stores = NoStores
    /\ upload = NoUpload
    /\ now = MaxUploads
    /\ dbImages = <<Image(1, <<tA, tB>>, <<>>, 1), Image(2, <<tA>>, <<"B">>, 2)>>
    /\ allImages = dbImages
    /\ dbTags = SortStrings(<<tA, tB>>)
    /\ allTags = dbTags
    /\ tagFrequency = ComputeTagFrequency(dbImages)
    /\ recentTags = <<>>
    /\ modal = NoModal
    /\ structuredTagsConfig = DefaultStructuredTagsConfig
    /\ structuredFilters = EmptyValues(structuredTagsConfig)
    /\ activeSearchTags = <<>>
    /\ filterMode = "and"
    /\ searchText = <<>>
    /\ sortBy = "newest"
    /\ filteredImages = <<>>
    /\ lastOp = Did("loadAllData")

\* one call is followed at a time; the dialogs stay in front of the tabs
\* until they are closed
NextCascade ==
    \/ \E tag \in Range(allTags) : OpenRenameTagModal(tag)
    \/ CancelRename
    \/ \E typed \in RenameInputs :
          /\ \/ useLocalStorage
             \/ trim(typed) = modal.tag
             \/ NormalizeTagName(trim(typed)) = <<>>
          /\ RenameTag(typed)
    \/ \E typed \in RenameInputs : BeginRenameTag(typed)
    \/ \E tag \in Range(allTags) : OpenDeleteTagConfirm(tag)
    \/ CancelConfirm
    \/ useLocalStorage /\ DeleteTag
    \/ BeginDeleteTag
    \/ ContinueCascade
    \/ \E tag \in SearchPicks : modal.kind = "none" /\ SelectSearchTag(tag)
    \/ \E text \in SearchTexts : modal.kind = "none" /\ SearchInput(text)

SpecCascade == InitCascade /\ [][NextCascade]_vars

(***************************************************************************)
(* Rejected storage writes: a request of the object store ends in onerror, *)
(* or localStorage.setItem throws.                                         *)
(***************************************************************************)
\* handleFiles of app.js and part_001: dbSaveImage is rejected inside the
\* try block of the loop; the catch logs, and the toast tells "saved"
HandleFilesFailing ==
    /\ variant \in {"app", "p1"}
    /\ modal.kind = "none"
    /\ filteredImages' = Refreshed(allImages)
    /\ lastOp' = Failed("handleFiles", FALSE, TRUE)
    /\ UNCHANGED filterVars
    /\ UNCHANGED <<variant, upload, stores, cascade, boot, recentTags, useLocalStorage, now, allImages, dbImages,
                   allTags, dbTags, tagFrequency, modal>>

\* saveImageEdit(): await dbUpdateImage(image) is rejected, nothing after it
\* runs; the dialog has written the image in memory already
SaveImageEditFailing ==
    /\ variant \in {"app", "p1"}
    /\ modal.kind = "edit"
    /\ EditedIndex # 0
    /\ lastOp' = Failed("saveImageEdit", TRUE, FALSE)
    /\ UNCHANGED filterVars
    /\ UNCHANGED <<variant, upload, stores, cascade, boot, recentTags, useLocalStorage, now, allImages, dbImages,
                   allTags, dbTags, tagFrequency, modal, filteredImages>>

\* deleteImage(imageId): await dbDeleteImage(imageId) is rejected
DeleteImageFailing ==
    /\ variant \in {"app", "p1"}
    /\ modal.kind = "edit"
    /\ lastOp' = Failed("deleteImage", TRUE, FALSE)
    /\ UNCHANGED filterVars
    /\ UNCHANGED <<variant, upload, stores, cascade, boot, recentTags, useLocalStorage, now, allImages, dbImages,
                   allTags, dbTags, tagFrequency, modal, filteredImages>>

\* renameTag: the write of allImages[failAt] is rejected, or dbSaveTags when
\* failAt is beyond the images; the images were rewritten in memory before
RenameTagFailing(typed, failAt) ==
    LET oldTag == modal.tag
        newName == trim(typed)
        newTag == NormalizeTagName(newName)
        isExisting == Includes(allTags, newTag)
        images == RenameInImages(allImages, oldTag, newTag)
    IN  /\ variant = "app"
        /\ modal.kind = "rename"
        /\ newName # <<>> /\ oldTag # NoTag
        /\ newName # oldTag /\ newTag # <<>>
        /\ failAt \in 1..(Len(allImages) + 1)
        /\ allImages' = images
        /\ dbImages' = DbUpdateAll(dbImages, SubSeq(images, 1, failAt - 1))
        /\ allTags' = IF failAt > Len(allImages)
                      THEN RenameInVocabulary(allTags, oldTag, newTag, isExisting)
                      ELSE allTags
        /\ lastOp' = Failed("renameTag", TRUE, FALSE)
        /\ UNCHANGED filterVars
        /\ UNCHANGED <<variant, upload, stores, cascade, boot, recentTags, useLocalStorage, now, dbTags,
                       tagFrequency, modal, filteredImages>>

\* deleteTag: likewise
DeleteTagFailing(failAt) ==
    LET tag == modal.tag
        images == RemoveFromImages(allImages, tag)
    IN  /\ variant = "app"
        /\ modal.kind = "confirm"
        /\ tag # NoTag
        /\ failAt \in 1..(Len(allImages) + 1)
        /\ allImages' = images
        /\ dbImages' = DbUpdateAll(dbImages, SubSeq(images, 1, failAt - 1))
        /\ allTags' = IF failAt > Len(allImages) THEN Without(allTags, tag) ELSE allTags
        /\ lastOp' = Failed("deleteTag", TRUE, FALSE)
        /\ UNCHANGED filterVars
        /\ UNCHANGED <<variant, upload, stores, cascade, boot, recentTags, useLocalStorage, now, dbTags,
                       tagFrequency, modal, filteredImages>>

\* UIManager.confirmDeleteSelected (part_000): db.deleteImage is rejected
\* after the images in deleted are gone from the store; the catch shows the
\* error toast, loadImages is not reached
ConfirmDeleteSelectedFailing(selectedImageIds, deleted) ==
    /\ variant = "p0"
    /\ modal.kind = "none"
    /\ selectedImageIds \subseteq {allImages[i].id : i \in 1..Len(allImages)}
    /\ deleted \subseteq selectedImageIds /\ deleted # selectedImageIds
    /\ dbImages' = SelectSeq(dbImages, LAMBDA r : r.id \notin deleted)
    /\ lastOp' = Failed("confirmDeleteSelected", TRUE, FALSE)
    /\ UNCHANGED filterVars
    /\ UNCHANGED <<variant, upload, stores, cascade, boot, recentTags, useLocalStorage, now, allImages, allTags,
                   dbTags, tagFrequency, modal, filteredImages>>

NextFailure ==
    \/ HandleFilesFailing
    \/ \E id \in 1..MaxUploads : OpenEditModal(id)
    \/ \E tag \in PickerTags : SelectTag(tag)
    \/ SaveImageEdit
    \/ SaveImageEditFailing
    \/ DeleteImageFailing
    \/ \E tag \in Range(allTags) : OpenRenameTagModal(tag)
    \/ \E typed \in RenameInputs, failAt \in 1..(MaxUploads + 1) :
          RenameTagFailing(typed, failAt)
    \/ CancelRename
    \/ \E tag \in Range(allTags) : OpenDeleteTagConfirm(tag)
    \/ \E failAt \in 1..(MaxUploads + 1) : DeleteTagFailing(failAt)
    \/ CancelConfirm
    \/ \E selectedImageIds \in SUBSET (1..MaxUploads), deleted \in SUBSET (1..MaxUploads) :
          ConfirmDeleteSelectedFailing(selectedImageIds, deleted)

SpecFailure == InitImport /\ [][NextFailure]_vars

(***************************************************************************)
(* The two backends side by side: every storage call is made on the        *)
(* IndexedDB stores and on the localStorage keys, from the same empty      *)
(* start, and each keeps what its own branch of the function leaves.       *)
(***************************************************************************)
MaxStored == 3

StoredRecords ==
    {Image(1, <<tA>>, <<>>, 1), Image(1, <<tB>>, <<>>, 1), Image(2, <<tA>>, <<>>, 2)}

SavedTagLists == {<<tB, tA>>, <<tA>>, <<tA, tA>>}

\* okIdb, okLs: whether the promise of each backend resolved
BackendCall(name, arg, idb, ls, okIdb, okLs) ==
    /\ stores' = [idb |-> idb, ls |-> ls]
    /\ lastOp' = [op |-> name, a |-> arg, b |-> NoTag, flag |-> FALSE,
                  okIdb |-> okIdb, okLs |-> okLs]
    /\ UNCHANGED <<variant, upload, boot, cascade, useLocalStorage, now, allImages, dbImages,
                   allTags, dbTags, tagFrequency, recentTags, modal, filterVars,
                   filteredImages>>

CallDbSaveImage(img) ==
    /\ Len(stores.ls.images) < MaxStored
    /\ LET okIdb == DbSaveImageOkOn(FALSE, stores.idb.images, img)
       IN  BackendCall("dbSaveImage", img,
               IF okIdb
               THEN [stores.idb EXCEPT !.images = DbSaveImageOn(FALSE, @, img)]
               ELSE stores.idb,
               [stores.ls EXCEPT !.images = DbSaveImageOn(TRUE, @, img)],
               okIdb, DbSaveImageOkOn(TRUE, stores.ls.images, img))

CallDbUpdateImage(img) ==
    BackendCall("dbUpdateImage", img,
        [stores.idb EXCEPT !.images = DbUpdateImageOn(FALSE, @, img)],
        [stores.ls EXCEPT !.images = DbUpdateImageOn(TRUE, @, img)],
        TRUE, TRUE)

CallDbDeleteImage(id) ==
    BackendCall("dbDeleteImage", id,
        [stores.idb EXCEPT !.images = DbDeleteImage(@, id)],
        [stores.ls EXCEPT !.images = DbDeleteImage(@, id)],
        TRUE, TRUE)

CallDbSaveTags(tags) ==
    BackendCall("dbSaveTags", tags,
        [stores.idb EXCEPT !.tags = DbSaveTagsOn(FALSE, @, tags)],
        [stores.ls EXCEPT !.tags = DbSaveTagsOn(TRUE, @, tags)],
        DbSaveTagsOkOn(FALSE, tags), DbSaveTagsOkOn(TRUE, tags))

CallDbClearAll ==
    BackendCall("dbClearAll", NoTag,
        DbClearAllOn(FALSE, stores.idb), DbClearAllOn(TRUE, stores.ls), TRUE, TRUE)

\* localStorage.setItem('structuredTagsConfig', ...) whichever backend is in use
CallSaveStructuredTagsConfig ==
    /\ variant = "p1"
    /\ BackendCall("saveStructuredTagsConfig", NoTag,
           [stores.idb EXCEPT !.config = TRUE], [stores.ls EXCEPT !.config = TRUE],
           TRUE, TRUE)

InitBackends == Init /\ variant # "p0" /\ ~useLocalStorage

NextBackends ==
    \/ \E img \in StoredRecords : CallDbSaveImage(img)
    \/ \E img \in StoredRecords : CallDbUpdateImage(img)
    \/ \E id \in {1, 2} : CallDbDeleteImage(id)
    \/ \E tags \in SavedTagLists : CallDbSaveTags(tags)
    \/ CallDbClearAll
    \/ CallSaveStructuredTagsConfig

SpecBackends == InitBackends /\ [][NextBackends]_vars

(***************************************************************************)
(* Upload batches: handleFiles walks the files of one drop or selection    *)
(* and gives file i the id Date.now() + i.  The clock may stand still      *)
(* between two readings, and between two batches.                          *)
(***************************************************************************)
MaxClock == 2

\* how far the clock moved before each file of the batch was read
ClockSteps == {<<0>>, <<1>>, <<0, 0>>, <<0, 1>>, <<1, 0>>, <<1, 1>>}

\* id: Date.now() + i, createdAt: new Date().toISOString(), for each file
RECURSIVE BatchImages(_, _, _, _)
BatchImages(clock, i, steps, structuredTags) ==
    IF steps = <<>> THEN <<>>
    ELSE LET reading == clock + Head(steps)
         IN  <<[id |-> reading + i, tags |-> <<>>, memo |-> <<>>,
                structuredTags |-> structuredTags, createdAt |-> reading]>>
             \o BatchImages(reading, i + 1, Tail(steps), structuredTags)

\* try { await dbSaveImage(imageData); allImages.push(imageData) } catch { log }
RECURSIVE SaveBatch(_, _, _)
SaveBatch(store, memory, images) ==
    IF images = <<>> THEN [store |-> store, memory |-> memory]
    ELSE IF ~DbSaveImageOk(store, Head(images))
         THEN SaveBatch(store, memory, Tail(images))
    ELSE SaveBatch(DbSaveImage(store, Head(images)), Append(memory, Head(images)),
                   Tail(images))

HandleFilesBatch(steps) ==
    LET images == BatchImages(now, 0, steps, EmptyValues(structuredTagsConfig))
        saved == SaveBatch(dbImages, allImages, images)
    IN  /\ modal.kind = "none"
        /\ images[Len(images)].createdAt <= MaxClock
        /\ Len(dbImages) < MaxStored
        /\ now' = images[Len(images)].createdAt
        /\ dbImages' = saved.store
        /\ allImages' = IF variant = "p0" THEN dbImages' ELSE saved.memory
        /\ lastOp' = Op("handleFilesBatch", [i \in 1..Len(images) |-> images[i].id],
                        NoTag, FALSE)
        /\ UNCHANGED filterVars
        /\ UNCHANGED <<variant, upload, stores, cascade, boot, recentTags, useLocalStorage, allTags,
                       dbTags, tagFrequency, modal>>
        /\ filteredImages' = IF variant = "p0" THEN filteredImages
                             ELSE Refreshed(allImages')

NextUpload ==
    \/ \E steps \in ClockSteps : HandleFilesBatch(steps)
    \/ \E id \in 1..(MaxClock + 1) : OpenEditModal(id)
    \/ \E tag \in PickerTags : SelectTag(tag)
    \/ \E typed \in TypedTags : AddEditTag(typed)
    \/ SaveImageEdit
    \/ SaveEditImage
    \/ DeleteImage

SpecUpload == Init /\ [][NextUpload]_vars

(***************************************************************************)
(* The upload flow of the first script of app.js: handleFiles reads each   *)
(* file, keeps it in pendingImageData and opens the tag dialog; Save and   *)
(* Skip store the pending image.  Reading a file and writing a record are  *)
(* awaited, so clicks and the next file come in between.                   *)
(***************************************************************************)
\* the files of each drop, each file named by a number
FileDrops == {<<1>>, <<2, 3>>}

\* handleFiles(files), up to the first await; the upload area is out of reach
\* while the tag dialog covers the page
HandleFilesModal(files) ==
    /\ variant = "p0"
    /\ upload.files = <<>>
    /\ upload.pending = <<>>
    /\ files \notin upload.dropped
    /\ upload' = [upload EXCEPT !.files = files, !.dropped = @ \union {files}]
    /\ lastOp' = Op("handleFilesModal", files, NoTag, FALSE)
    /\ UNCHANGED filterVars
    /\ UNCHANGED <<variant, stores, cascade, boot, recentTags, useLocalStorage, now,
                   allImages, dbImages, allTags, dbTags, tagFrequency, modal,
                   filteredImages>>

\* fileToDataURL and generateThumbnail are done: pendingImageData = {...}
\* and openTagModal(), which empties #tagModalList; then the next file
ReadFile ==
    /\ upload.files # <<>>
    /\ upload' = [upload EXCEPT !.files = Tail(@), !.pending = <<Head(upload.files)>>,
                                !.list = <<>>]
    /\ lastOp' = Op("openTagModal", Head(upload.files), NoTag, FALSE)
    /\ UNCHANGED filterVars
    /\ UNCHANGED <<variant, stores, cascade, boot, recentTags, useLocalStorage, now,
                   allImages, dbImages, allTags, dbTags, tagFrequency, modal,
                   filteredImages>>

AddModalTag(typed) ==
    LET trimmedTag == trim(typed)
    IN  /\ upload.pending # <<>>
        /\ Len(upload.list) < MaxTagsPerItem
        /\ upload' = IF trimmedTag = <<>> \/ Includes(upload.list, trimmedTag)
                     THEN upload
                     ELSE [upload EXCEPT !.list = Append(@, trimmedTag)]
        /\ lastOp' = Op("addModalTag", typed, NoTag, FALSE)
        /\ UNCHANGED filterVars
        /\ UNCHANGED <<variant, stores, cascade, boot, recentTags, useLocalStorage, now,
                       allImages, dbImages, allTags, dbTags, tagFrequency, modal,
                       filteredImages>>

\* saveNewImageTags() and skipImageTags() up to db.saveImage: the record is
\* built from pendingImageData with id: Date.now(); the clock may have moved
BeginSaveNewImage(tagged, tick) ==
    /\ upload.pending # <<>>
    /\ now + tick <= MaxClock
    /\ Len(upload.writes) < MaxUploads
    /\ now' = now + tick
    /\ upload' = [upload EXCEPT !.writes = Append(@,
           [id |-> now', original |-> upload.pending[1],
            tags |-> IF tagged THEN upload.list ELSE <<>>, memo |-> <<>>,
            structuredTags |-> <<>>, createdAt |-> now', tagged |-> tagged])]
    /\ lastOp' = Op(IF tagged THEN "saveNewImageTags" ELSE "skipImageTags",
                    upload.pending[1], NoTag, FALSE)
    /\ UNCHANGED filterVars
    /\ UNCHANGED <<variant, stores, cascade, boot, recentTags, useLocalStorage,
                   allImages, dbImages, allTags, dbTags, tagFrequency, modal,
                   filteredImages>>

\* db.saveImage settles: addMultipleTags, closeTagModal and loadImages when it
\* resolved, the error toast when store.add rejected the id
EndSaveNewImage ==
    /\ upload.writes # <<>>
    /\ LET write == Head(upload.writes)
           imageData == [id |-> write.id, original |-> write.original,
                         tags |-> write.tags, memo |-> write.memo,
                         structuredTags |-> write.structuredTags,
                         createdAt |-> write.createdAt]
           tags == IF write.tagged THEN AddMultipleTags(allTags, write.tags)
                   ELSE allTags
       IN  IF DbSaveImageOk(dbImages, imageData)
           THEN /\ dbImages' = DbSaveImage(dbImages, imageData)
                /\ allImages' = dbImages'
                /\ allTags' = tags
                /\ dbTags' = IF tags = allTags THEN dbTags ELSE DbSaveTags(tags)
                /\ upload' = [upload EXCEPT !.writes = Tail(@), !.pending = <<>>]
                /\ lastOp' = Op("imageSaved", write.original, NoTag, TRUE)
           ELSE /\ upload' = [upload EXCEPT !.writes = Tail(@)]
                /\ lastOp' = Op("imageSaved", write.original, NoTag, FALSE)
                /\ UNCHANGED <<dbImages, allImages, allTags, dbTags>>
    /\ UNCHANGED filterVars
    /\ UNCHANGED <<variant, stores, cascade, boot, recentTags, useLocalStorage, now,
                   tagFrequency, modal, filteredImages>>

\* the close button and the backdrop of #tagModal
CloseTagModal ==
    /\ upload.pending # <<>>
    /\ upload' = [upload EXCEPT !.pending = <<>>]
    /\ lastOp' = Did("closeTagModal")
    /\ UNCHANGED filterVars
    /\ UNCHANGED <<variant, stores, cascade, boot, recentTags, useLocalStorage, now,
                   allImages, dbImages, allTags, dbTags, tagFrequency, modal,
                   filteredImages>>

InitUploadModal == Init /\ variant = "p0"

NextUploadModal ==
    \/ \E files \in FileDrops : HandleFilesModal(files)
    \/ ReadFile
    \/ \E typed \in TypedTags : AddModalTag(typed)
    \/ \E tagged \in BOOLEAN, tick \in {0, 1} : BeginSaveNewImage(tagged, tick)
    \/ EndSaveNewImage
    \/ CloseTagModal

SpecUploadModal == InitUploadModal /\ [][NextUploadModal]_vars

(***************************************************************************)
(* What the properties are stated in.                                      *)
(***************************************************************************)
\* the number of images whose tag list contains t
ItemsContaining(images, t) ==
    Cardinality({i \in 1..Len(images) : Includes(images[i].tags, t)})

\* the number of places of the list arr that hold x
Occurrences(arr, x) == Cardinality({i \in 1..Len(arr) : arr[i] = x})

\* every tag name the state mentions
KnownTags ==
    Range(allTags) \cup DOMAIN tagFrequency
        \cup UNION {Range(allImages[i].tags) : i \in 1..Len(allImages)}

UsageIndexExact ==
    \A t \in KnownTags : FrequencyOf(tagFrequency, t) = ItemsContaining(allImages, t)

IsSorted(arr) == \A i \in 1..(Len(arr) - 1) : ~StrLess(arr[i + 1], arr[i])

\* the operations that change items or the vocabulary
MutatingOps == {"handleFiles", "saveImageEdit", "deleteImage", "renameTag", "deleteTag"}

\* the operations on items: upload, the edit dialog and what it offers, delete
ItemOps == {"handleFiles", "openEditModal", "selectTag", "selectFreeTagInEdit",
            "createNewFreeTagInEdit", "removeEditTag", "saveImageEdit",
            "closeModal", "deleteImage", "addEditTag", "saveEditImage",
            "confirmDeleteSelected"}

(***************************************************************************)
(* C1.  After an upload, a saved edit, an item delete, a rename, a merge   *)
(* or a tag delete, the stored usage count of every tag (0 when it has no  *)
(* entry) is the number of in-memory images whose tag list contains it.    *)
(***************************************************************************)
C1_UsageCountEqualsItemCount ==
    (variant \in {"app", "p1"} /\ lastOp.op \in MutatingOps) => UsageIndexExact

(***************************************************************************)
(* C2.  A merge renameTag(x, y), applied when image A is tagged [x], image *)
(* B is tagged [y] and the usage index is exact, leaves usage count 2 for  *)
(* y and no usage entry for x.                                             *)
(***************************************************************************)
C2_MergeRecountsUsage ==
    [][(/\ lastOp'.op = "renameTag"
        /\ lastOp'.flag
        /\ lastOp'.a # lastOp'.b
        /\ UsageIndexExact
        /\ Len(allImages) = 2
        /\ allImages[1].tags = <<lastOp'.a>>
        /\ allImages[2].tags = <<lastOp'.b>>)
       => (/\ FrequencyOf(tagFrequency', lastOp'.b) = 2
           /\ lastOp'.a \notin DOMAIN tagFrequency')]_vars

(***************************************************************************)
(* C3.  A renameTag(oldTag, newTag) whose normalised newTag differs from   *)
(* oldTag leaves newTag exactly once on every image that had oldTag and    *)
(* oldTag on no image; the vocabulary loses oldTag and holds newTag        *)
(* exactly once, and is sorted when newTag was not in it before.           *)
(***************************************************************************)
C3_RenameCascade ==
    [][(lastOp'.op = "renameTag" /\ lastOp'.a # lastOp'.b)
       => LET oldTag == lastOp'.a
              newTag == lastOp'.b
          IN  /\ Len(allImages') = Len(allImages)
              /\ \A i \in 1..Len(allImages) :
                    /\ allImages'[i].id = allImages[i].id
                    /\ Includes(allImages[i].tags, oldTag)
                          => Occurrences(allImages'[i].tags, newTag) = 1
                    /\ ~Includes(allImages'[i].tags, oldTag)
              /\ ~Includes(allTags', oldTag)
              /\ Occurrences(allTags', newTag) = 1
              /\ ~lastOp'.flag => IsSorted(allTags')]_vars

\* a rename to a new name has just put it before a name that was there
C3_RenamedIntoSortedVocabulary ==
    /\ lastOp.op = "renameTag" /\ ~lastOp.flag /\ lastOp.a # lastOp.b
    /\ Len(allTags) >= 2 /\ allTags[1] = lastOp.b
    /\ \E i \in 1..Len(allImages) : Includes(allImages[i].tags, lastOp.b)

(***************************************************************************)
(* C4.  When deleteTag(t) has completed, no image's tag list contains t    *)
(* and t is in neither the vocabulary nor the usage index.                 *)
(***************************************************************************)
C4_DeleteTagRemovesEverywhere ==
    lastOp.op = "deleteTag" =>
        /\ \A i \in 1..Len(allImages) : ~Includes(allImages[i].tags, lastOp.a)
        /\ ~Includes(allTags, lastOp.a)
        /\ lastOp.a \notin DOMAIN tagFrequency

(***************************************************************************)
(* C5.  The count the delete confirmation shows is the number of images    *)
(* that contain the tag when the confirmation opens.                       *)
(***************************************************************************)
C5_ConfirmShowsActualCount ==
    modal.kind = "confirm" => modal.count = ItemsContaining(allImages, modal.tag)

(***************************************************************************)
(* C6.  An upload, a step of the edit dialog, a saved edit or an item      *)
(* delete keeps every name of the vocabulary, in memory and in storage,    *)
(* also when no image uses the name any more.                              *)
(***************************************************************************)
C6_VocabularyKeptByItemOps ==
    [][lastOp'.op \in ItemOps
       => /\ Range(allTags) \subseteq Range(allTags')
          /\ Range(dbTags) \subseteq Range(dbTags')]_vars

\* the last image that used a vocabulary name has just been deleted
C6_UnusedNameStillInVocabulary ==
    /\ lastOp.op = "deleteImage"
    /\ allImages = <<>>
    /\ \E t \in Range(allTags) : FrequencyOf(tagFrequency, t) > 0

(***************************************************************************)
(* The query, as the specification words it.                               *)
(***************************************************************************)
\* the handlers that end with applyFilters
RefreshingOps ==
    {"selectSearchTag", "removeSearchTag", "setFilterMode", "searchInput", "setSortBy",
     "selectStructuredFilter", "saveImageEdit", "saveCategory", "deleteCategory"}

EqualIgnoringCase(s, t) ==
    /\ Len(s) = Len(t)
    /\ \A i \in 1..Len(s) : LowerChar(s[i]) = LowerChar(t[i])

HasTagIgnoringCase(img, tag) ==
    \E i \in 1..Len(img.tags) : EqualIgnoringCase(img.tags[i], tag)

\* superset of the filter in AND mode, intersection with it in OR mode
MatchesFreeTags(img) ==
    \/ activeSearchTags = <<>>
    \/ /\ filterMode = "and"
       /\ \A tag \in Range(activeSearchTags) : HasTagIgnoringCase(img, tag)
    \/ /\ filterMode # "and"
       /\ \E tag \in Range(activeSearchTags) : HasTagIgnoringCase(img, tag)

\* the values an item carries for a category, whatever their shape
ValueSet(img, key) ==
    LET v == Get(img.structuredTags, key)
    IN  CASE v.type = "array" -> Range(v.arr)
          [] v.type = "string" -> {v.str}
          [] OTHER -> {}

FilterSet(key) ==
    LET v == Get(structuredFilters, key)
    IN  CASE v.type = "array" -> Range(v.arr)
          [] v.type = "string" -> {v.str}
          [] OTHER -> {}

MatchesStructured(img) ==
    \A key \in DOMAIN structuredTagsConfig :
        FilterSet(key) # {} =>
            IF structuredTagsConfig[key].multi
            THEN ValueSet(img, key) \cap FilterSet(key) # {}
            ELSE Get(img.structuredTags, key) = Get(structuredFilters, key)

\* the maximal runs of non-whitespace characters of the text
Words(text) ==
    {SubSeq(text, i, j) : <<i, j>> \in
        {w \in (1..Len(text)) \X (1..Len(text)) :
            /\ w[1] <= w[2]
            /\ \A k \in w[1]..w[2] : ~IsSpace(text[k])
            /\ w[1] = 1 \/ IsSpace(text[w[1] - 1])
            /\ w[2] = Len(text) \/ IsSpace(text[w[2] + 1])}}

OccursIgnoringCase(term, s) ==
    \E at \in 1..(Len(s) - Len(term) + 1) :
        \A k \in 1..Len(term) : LowerChar(s[at + k - 1]) = LowerChar(term[k])

\* the free tags, the memo and every structured value of an item
SearchedStrings(img) ==
    Range(img.tags) \cup {img.memo}
        \cup UNION {ValueSet(img, key) : key \in DOMAIN img.structuredTags}

MatchesText(img) ==
    \A term \in Words(searchText) :
        \E s \in SearchedStrings(img) : OccursIgnoringCase(term, s)

ResultIds == Range(filteredImages)

IdsOf(images) == {images[i].id : i \in 1..Len(images)}

NoStructuredFilter == \A key \in DOMAIN structuredTagsConfig : FilterSet(key) = {}

\* C7: with a non-empty free-tag filter and no other filter, the query keeps
\* in AND mode exactly the items that carry every tag of the filter, in OR
\* mode exactly those that carry at least one, tags compared ignoring case.
C7_FreeTagFilterIgnoresCase ==
    (/\ lastOp.op \in RefreshingOps
     /\ activeSearchTags # <<>> /\ NoStructuredFilter /\ Words(searchText) = {})
        => ResultIds = IdsOf(SelectSeq(allImages, MatchesFreeTags))

\* C8: with a non-empty structured filter and no other filter, the query
\* keeps exactly the items that, for every filtered category, share a value
\* with the filter (multi-valued) or hold the filter's value (single-valued).
C8_StructuredFilterMatchesWholeValues ==
    (/\ lastOp.op \in RefreshingOps
     /\ ~NoStructuredFilter /\ activeSearchTags = <<>> /\ Words(searchText) = {})
        => ResultIds = IdsOf(SelectSeq(allImages, MatchesStructured))

C10_ResultIsConjunctionOfPasses ==
    lastOp.op \in RefreshingOps =>
        /\ ResultIds = IdsOf(SelectSeq(allImages,
                LAMBDA img : MatchesStructured(img) /\ MatchesFreeTags(img) /\ MatchesText(img)))
        /\ (activeSearchTags = <<>> /\ NoStructuredFilter /\ Words(searchText) = {})
              => Len(filteredImages) = Len(allImages)

\* the image of the collection a result entry stands for
Shown(i) == allImages[FindIndex(allImages, filteredImages[i])]

\* C11: the query result is ordered by createdAt, descending for 'newest'
\* and ascending for 'oldest', and items with the same createdAt keep the
\* relative order they have in the collection.
C11_ResultOrderedByCreatedAt ==
    lastOp.op \in RefreshingOps =>
        \A i, j \in 1..Len(filteredImages) :
            i < j =>
                /\ sortBy = "newest" => Shown(i).createdAt >= Shown(j).createdAt
                /\ sortBy = "oldest" => Shown(i).createdAt <= Shown(j).createdAt
                /\ Shown(i).createdAt = Shown(j).createdAt
                      => FindIndex(allImages, filteredImages[i])
                            < FindIndex(allImages, filteredImages[j])

\* two images created in the same millisecond are both shown, oldest first
C11_TiedItemsShownInInputOrder ==
    /\ lastOp.op = "setSortBy"
    /\ sortBy = "oldest"
    /\ Len(filteredImages) = 2
    /\ Shown(1).createdAt = Shown(2).createdAt

\* an image without its value for the category key
WithoutCategory(img, key) ==
    [img EXCEPT !.structuredTags = [k \in (DOMAIN @) \ {key} |-> @[k]]]

\* the query evaluated on the images as they are without the category key
ResultWithoutCategory(key) ==
    ApplyFilters(variant, sortBy,
                 [i \in 1..Len(allImages) |-> WithoutCategory(allImages[i], key)],
                 structuredTagsConfig, structuredFilters, activeSearchTags, filterMode,
                 searchText)

\* C12: once deleteCategory(k) is confirmed, no item has a value under k, the
\* schema and the structured filters have no entry for k, and the result of
\* every query run while k is not in the schema is the result the items
\* give without their value under k.
C12_DeletedCategoryIgnored ==
    \A key \in Keys :
        /\ lastOp.op = "deleteCategory" =>
              /\ \A i \in 1..Len(allImages) : key \notin DOMAIN allImages[i].structuredTags
              /\ key \notin DOMAIN structuredTagsConfig
              /\ key \notin DOMAIN structuredFilters
        /\ (variant = "p1" /\ lastOp.op \in RefreshingOps
                /\ key \notin DOMAIN structuredTagsConfig)
              => filteredImages = ResultWithoutCategory(key)

\* C13: when editCategory changes the label of a category, every item's
\* value under its key becomes the empty value of the new cardinality (null
\* when single, the empty list when multi); when the label stays, no item's
\* value under the key changes.
C13_LabelChangeResetsValues ==
    [][lastOp'.op = "saveCategory" =>
        LET key == modal.tag
        IN  /\ Len(allImages') = Len(allImages)
            /\ \A i \in 1..Len(allImages) :
                  LET before == Get(allImages[i].structuredTags, key)
                      after == Get(allImages'[i].structuredTags, key)
                  IN  IF structuredTagsConfig'[key].label # structuredTagsConfig[key].label
                      THEN after = IF structuredTagsConfig'[key].multi
                                   THEN Arr(<<>>) ELSE Null
                      ELSE after = before]_vars

\* a category was renamed and made multi-valued: the item that held 'ab'
\* (as its stored copy still shows) holds the empty list
C13_RenamedCategoryValueReset ==
    /\ lastOp.op = "saveCategory"
    /\ \E key \in DOMAIN structuredTagsConfig :
          /\ structuredTagsConfig[key].label = tB
          /\ structuredTagsConfig[key].multi
          /\ Get(allImages[1].structuredTags, key) = Arr(<<>>)
          /\ Get(dbImages[1].structuredTags, key) = Str(tAb)

\* the calls that add a name to the vocabulary
AddTagOps == {"addTag", "openAddFreeTagModal", "addNewFreeTagImmediate"}

\* C14: addTag trims its input; for an empty trimmed tag or one already in
\* the vocabulary it changes nothing and returns false; otherwise it inserts
\* the trimmed tag, leaves the vocabulary sorted, persists it and returns
\* true; the vocabulary never holds two equal entries.
C14_AddTagContract ==
    [][lastOp'.op \in AddTagOps =>
        LET trimmed == trim(lastOp'.a)
        IN  /\ IF trimmed = <<>> \/ trimmed \in Range(allTags)
               THEN /\ allTags' = allTags
                    /\ dbTags' = dbTags
                    /\ lastOp'.op = "addTag" => lastOp'.ret = "false"
               ELSE /\ Range(allTags') = Range(allTags) \cup {trimmed}
                    /\ IsSorted(allTags')
                    /\ Range(dbTags') = Range(allTags')
                    /\ lastOp'.op = "addTag" => lastOp'.ret = "true"
            /\ NoDuplicates(allTags')]_vars

\* whether short is the beginning of long
IsPrefix(short, long) == Len(short) <= Len(long) /\ SubSeq(long, 1, Len(short)) = short

\* C15: from an empty list on, after every recordUsage call the recent tags
\* are at most 8, hold no tag twice, begin with the tag of the call, and go
\* on with the tags recorded before it in the order they had, the oldest
\* dropped when the list is full.
C15_RecentTagsMostRecentFirst ==
    [][lastOp'.op = "recordTagUsage" =>
        LET earlier == Without(recentTags, lastOp'.a)
        IN  /\ Len(recentTags') <= 8
            /\ NoDuplicates(recentTags')
            /\ recentTags'[1] = lastOp'.a
            /\ IsPrefix(Tail(recentTags'), earlier)
            /\ Len(recentTags') < 8 => Tail(recentTags') = earlier]_vars

\* a ninth tag was recorded: the list is full and the oldest tag has left it
C15_NinthTagDropsOldest ==
    /\ lastOp.op = "recordTagUsage"
    /\ Len(recentTags) = 8
    /\ Cardinality(Range(UsageTags) \ Range(recentTags)) = 1
    /\ recentTags[1] = tUpperAb
    /\ tA \notin Range(recentTags)

\* the catalog a file or an export holds: items, vocabulary set, schema
SameCatalog(d, e) ==
    /\ Range(d.images) = Range(e.images)
    /\ IdsOf(d.images) = IdsOf(e.images)
    /\ Range(d.tags) = Range(e.tags)
    /\ d.config = e.config

\* C16: an import in overwrite mode of the export just made goes through and
\* leaves a catalog whose export holds the same items by id, the same
\* vocabulary set and the same category schema as before.
C16_ExportImportOverwriteRoundTrip ==
    [][(/\ lastOp'.op = "importData"
        /\ ~lastOp'.flag
        /\ lastOp'.data = JsonData(ExportData))
       => lastOp'.ok /\ SameCatalog(ExportData', ExportData)]_vars

\* C17: after an import in overwrite mode the items, the vocabulary and the
\* category schema, in memory and in storage, are those of the imported file
\* and nothing else.
C17_OverwriteLeavesOnlyImported ==
    [][(lastOp'.op = "importData" /\ ~lastOp'.flag) =>
        LET data == lastOp'.data
        IN  /\ Range(allImages') = Range(data.images)
            /\ Range(dbImages') = Range(data.images)
            /\ Range(allTags') = Range(data.tags)
            /\ Range(dbTags') = Range(data.tags)
            /\ data.hasConfig => structuredTagsConfig' = data.config]_vars

\* every id is held by one record only
OncePerId(images) == Cardinality(IdsOf(images)) = Len(images)

\* C18: an import in merge mode goes through, also when ids overlap, and
\* leaves, in memory and in storage, one record for every id of the existing
\* or the imported items, the imported record where both hold the id; the
\* vocabulary is the union of both vocabularies and the schema the union of
\* both key sets with the imported entries.
C18_MergeIsUnionImportedWins ==
    [][(lastOp'.op = "importData" /\ lastOp'.flag) =>
        LET data == lastOp'.data
            ids == IdsOf(allImages) \cup IdsOf(data.images)
        IN  /\ lastOp'.ok
            /\ IdsOf(allImages') = ids /\ OncePerId(allImages')
            /\ IdsOf(dbImages') = ids /\ OncePerId(dbImages')
            /\ Range(data.images) \subseteq Range(allImages')
            /\ Range(data.images) \subseteq Range(dbImages')
            /\ Range(allTags') = Range(allTags) \cup Range(data.tags)
            /\ data.hasConfig =>
                   /\ DOMAIN structuredTagsConfig' =
                          (DOMAIN structuredTagsConfig) \cup (DOMAIN data.config)
                   /\ \A k \in DOMAIN data.config :
                          structuredTagsConfig'[k] = data.config[k]]_vars

\* C19: once the open request has failed, start-up still comes to its end,
\* and from then on storage is served by localStorage.
C19_InitCompletesOnAlternateBackend ==
    /\ [](boot.request = "failed" => <>Ready)
    /\ [](boot.request = "failed" /\ Ready => useLocalStorage)

\* C20: renameTag changes nothing when the new name, trimmed and with its
\* whitespace collapsed, is empty or is the old name: items, vocabulary and
\* usage counts stay as they are, in memory and in storage.
C20_RenameToSameNameIsNoOp ==
    [][(\/ lastOp'.op \in {"renameTagSame", "renameTagEmpty"}
        \/ lastOp'.op = "renameTag" /\ lastOp'.b \in {NoTag, lastOp'.a})
       => UNCHANGED <<allImages, dbImages, allTags, dbTags, tagFrequency>>]_vars

\* the stored copy of every item has the structuredTags of its in-memory copy
StoredStructuredTagsAsInMemory(memory, stored) ==
    /\ IdsOf(memory) = IdsOf(stored)
    /\ \A i \in 1..Len(memory) :
          stored[FindIndex(stored, memory[i].id)].structuredTags = memory[i].structuredTags

\* C21: after editCategory with a label change and after deleteCategory, on
\* a catalog whose stored items agreed with memory before, the stored copy of
\* every item carries the structuredTags of its in-memory copy.
C21_CategoryChangePersisted ==
    [][(/\ StoredStructuredTagsAsInMemory(allImages, dbImages)
        /\ \/ lastOp'.op = "deleteCategory"
           \/ /\ lastOp'.op = "saveCategory"
              /\ structuredTagsConfig'[modal.tag].label # structuredTagsConfig[modal.tag].label)
       => StoredStructuredTagsAsInMemory(allImages', dbImages')]_vars

\* no in-memory item carries the tag of the call any more, while a stored
\* item, the vocabulary, its stored copy or the usage counts still do
CascadeHalfDone ==
    /\ cascade # NoCascade
    /\ \A i \in 1..Len(allImages) : ~Includes(allImages[i].tags, cascade.a)
    /\ \/ \E i \in 1..Len(dbImages) : Includes(dbImages[i].tags, cascade.a)
       \/ Includes(allTags, cascade.a)
       \/ Includes(dbTags, cascade.a)
       \/ cascade.a \in DOMAIN tagFrequency

\* the handlers that read the items, the vocabulary or the usage counts: the
\* queries of the search tab, and the dialogs of the tag tab with their calls
ReadingOps == {"selectSearchTag", "searchInput", "openRenameTagModal",
               "openDeleteTagConfirm", "renameTagCalled", "deleteTagCalled"}

\* C22: no query and no other user-triggered handler that reads the catalog
\* runs on a state in which a rename or delete cascade has rewritten the
\* items in memory while storage, the vocabulary or the usage counts are not
\* yet updated.
C22_CascadeNotObservableHalfDone ==
    [][lastOp'.op \in ReadingOps => ~CascadeHalfDone]_vars

\* C23: a handler whose storage write was rejected leaves the in-memory
\* items and vocabulary equal to what storage holds, and surfaces the
\* failure instead of reporting success.
C23_FailedWriteLeavesMemoryAsStored ==
    [][("failed" \in DOMAIN lastOp') =>
        /\ Range(allImages') = Range(dbImages')
        /\ Range(allTags') = Range(dbTags')
        /\ lastOp'.surfaced /\ ~lastOp'.success]_vars

\* two backends hold the same records, the same names and the same keys
SameStored(a, b) ==
    /\ Len(a.images) = Len(b.images)
    /\ Range(a.images) = Range(b.images)
    /\ Range(a.tags) = Range(b.tags)
    /\ a.config = b.config

\* C24: after the same sequence of dbSaveImage, dbUpdateImage, dbDeleteImage,
\* dbSaveTags and dbClearAll calls the IndexedDB backend and the localStorage
\* backend hold the same items and the same vocabulary, and the last call
\* succeeded on both or failed on both.
C24_BackendsBehaveIdentically ==
    /\ SameStored(stores.idb, stores.ls)
    /\ ("okIdb" \in DOMAIN lastOp) => (lastOp.okIdb = lastOp.okLs)

\* no two entries of the list are equal once both are lower-cased
NoDuplicatesIgnoringCase(arr) ==
    \A i, j \in 1..Len(arr) : toLowerCase(arr[i]) = toLowerCase(arr[j]) => i = j

\* C25: no item, in memory or stored, has two free tags that are equal under
\* case-insensitive comparison.
C25_NoCaseInsensitiveDuplicateTags ==
    /\ \A i \in 1..Len(allImages) : NoDuplicatesIgnoringCase(allImages[i].tags)
    /\ \A i \in 1..Len(dbImages) : NoDuplicatesIgnoringCase(dbImages[i].tags)

\* C26: every file of an upload batch gets an id that differs from the ids of
\* the other files of the batch and from the id of every item already stored,
\* whatever the (non-decreasing) clock readings are.
C26_UploadedIdsDistinct ==
    [][lastOp'.op = "handleFilesBatch" =>
        /\ NoDuplicates(lastOp'.a)
        /\ \A i \in 1..Len(lastOp'.a) : ~HasId(dbImages, lastOp'.a[i])]_vars

\* the picker calls that put a tag on the item of the edit dialog
TagAddOps == {"selectTag", "selectFreeTagInEdit", "createNewFreeTagInEdit"}

\* C27: adding a tag to an item is idempotent.  A second application of the
\* add meets an item that has the tag, so it must leave the list as it is:
\* no add takes a tag off the list and none leaves a tag on it twice.
C27_AddingTagIsIdempotent ==
    [][/\ lastOp'.op \in TagAddOps =>
            /\ Range(allImages[EditedIndex].tags) \subseteq
                   Range(allImages'[EditedIndex].tags)
            /\ NoDuplicates(allImages'[EditedIndex].tags)
       /\ lastOp'.op = "addEditTag" =>
            /\ IsPrefix(modal.list, modal'.list)
            /\ NoDuplicates(modal.list) => NoDuplicates(modal'.list)]_vars

\* C28: every free tag that some item carries, in memory or stored, is a
\* name of the vocabulary.
C28_ItemTagsAreInVocabulary ==
    /\ \A i \in 1..Len(allImages) : Range(allImages[i].tags) \subseteq Range(allTags)
    /\ \A i \in 1..Len(dbImages) : Range(dbImages[i].tags) \subseteq Range(dbTags)

\* C29: when the edit dialog is closed without saving, the item it was opened
\* on has in memory the free and structured tags of its stored copy.
C29_ClosingDialogDiscardsEdits ==
    [][(modal.kind = "edit" /\ lastOp'.op = "closeModal" /\ EditedIndex # 0) =>
        LET image == allImages'[EditedIndex]
            at == FindIndex(dbImages', modal.id)
        IN  /\ at # 0
            /\ image.tags = dbImages'[at].tags
            /\ image.structuredTags = dbImages'[at].structuredTags]_vars

\* C30: in the upload flow with the tag dialog no pending image is replaced
\* by a later file while it waits for Save or Skip, and no file ever has two
\* stored items.
C30_OneStoredItemPerFile ==
    [][/\ upload.pending # <<>> => upload'.pending \in {upload.pending, <<>>}
       /\ \A i, j \in 1..Len(dbImages') :
              dbImages'[i].original = dbImages'[j].original => i = j]_vars

====
